---- MODULE Spec2Model ----
(***************************************************************************)
(* A model of the Consolite C compiler (rfotino/consolite-compiler):       *)
(* tokenizer, declaration/statement parser, expression parser, register    *)
(* allocator, statement code generator and driver.  Each subsystem is a    *)
(* machine over its own variables; the specification of one subsystem      *)
(* holds the variables of the others at their idle values.                 *)
(***************************************************************************)
EXTENDS Integers, Sequences, FiniteSets, TLC

VARIABLES
  \* ---- Tokenizer (tokenizer.h / tokenizer.cpp) ----
  data,        \* Tokenizer::_data, a sequence of characters
  offset,      \* Tokenizer::_offset (0-based)
  lineNum,     \* Tokenizer::_lineNum
  hasNext,     \* Tokenizer::_hasNext
  next,        \* Tokenizer::_next
  calls,       \* history: the calls made so far, <<op, returned atom>>
  lastScan,    \* history: the last scan of the buffer, [from, to, atom]
  \* ---- Parser (parser.h / parser.cpp) ----
  prog,        \* the declarations of the source file, as texts
  functions,   \* Parser::_functions
  globals,     \* Parser::_globals
  errors,      \* the errors printed so far
  warnings,    \* the warnings printed so far
  status,      \* "parsing", then "accepted" or "rejected" as parse() returns
  expr,        \* the locals of ExprToken::parse and the ExprToken it fills
  \* ---- Code generation (FunctionToken::output, Parser::write*) ----
  fn,          \* the FunctionToken being output
  al,          \* the locals of FunctionToken::output and its position
  gen,         \* the Parser's output: lines written, pending PUSH, labels
  \* ---- Driver (main.cpp) ----
  proc         \* the compiler process: arguments, files, position, exit

tokVars == <<data, offset, lineNum, hasNext, next, calls, lastScan>>

parseVars == <<prog, functions, globals, errors, warnings, status, expr>>

outVars == <<fn, al, gen>>

vars == <<tokVars, parseVars, outVars, proc>>

(***************************************************************************)
(* Bounds                                                                  *)
(***************************************************************************)
MaxDataLen == 5      \* longest source buffer
MaxCalls == 5        \* peekNext/getNext calls per run

(***************************************************************************)
(* Generic helpers                                                         *)
(***************************************************************************)
SeqsUpTo(S, n) == UNION { [1..k -> S] : k \in 0..n }

(***************************************************************************)
(* Tokenizer                                                               *)
(***************************************************************************)
Chars == {"a", " ", "\n", "/", "*", "="}

IsWhitespace(c) == c \in {" ", "\t", "\n", "\r"}

TwoCharOps == { <<"|", "|">>, <<"&", "&">>, <<"=", "=">>, <<"!", "=">>,
                <<"<", "=">>, <<">", "=">>, <<"<", "<">>, <<">", ">">> }

OneCharOps == {"+", "-", "*", "/", "%", "&", "|", "^", "=", "<", ">", "!",
               "~", ",", ";", "[", "]", "(", ")", "{", "}"}

AtomToken(str, line) == [str |-> str, line |-> line]

EmptyAtom == AtomToken(<<>>, 0)

\* The while loop of Tokenizer::getNext.  d[off + 1] is _data[_offset].
\* The result is the atom built and the offset the loop stopped at.
RECURSIVE ScanLoop(_, _, _, _, _, _)
ScanLoop(d, off, line, token, singleComment, multiComment) ==
  IF off >= Len(d)
  THEN [atom |-> AtomToken(token, line), offset |-> off, lineNum |-> line]
  ELSE
    LET c == d[off + 1]
        hasTwo == off + 1 < Len(d)
        c2 == IF hasTwo THEN d[off + 2] ELSE ""
        stop == [atom |-> AtomToken(token, line), offset |-> off,
                 lineNum |-> line]
        nline == IF c = "\n" THEN line + 1 ELSE line
    IN
    IF singleComment
    THEN ScanLoop(d, off + 1, nline, token, c # "\n", FALSE)
    ELSE IF multiComment
    THEN ScanLoop(d, off + 1, nline, token, FALSE,
                  ~(c = "/" /\ 1 <= off /\ d[off] = "*"))
    ELSE IF IsWhitespace(c)
    THEN IF Len(token) > 0 THEN stop
         ELSE ScanLoop(d, off + 1, nline, token, FALSE, FALSE)
    ELSE IF c = "/" /\ hasTwo /\ c2 = "/"
    THEN IF Len(token) > 0 THEN stop
         ELSE ScanLoop(d, off + 1, nline, token, TRUE, FALSE)
    ELSE IF c = "/" /\ hasTwo /\ c2 = "*"
    THEN IF Len(token) > 0 THEN stop
         ELSE ScanLoop(d, off + 1, nline, token, FALSE, TRUE)
    ELSE IF hasTwo /\ <<c, c2>> \in TwoCharOps
    THEN IF Len(token) = 0
         THEN [atom |-> AtomToken(<<c, c2>>, line), offset |-> off + 2,
               lineNum |-> line]
         ELSE stop
    ELSE IF c \in OneCharOps
    THEN IF Len(token) = 0
         THEN [atom |-> AtomToken(<<c>>, line), offset |-> off + 1,
               lineNum |-> line]
         ELSE stop
    ELSE ScanLoop(d, off + 1, nline, Append(token, c), FALSE, FALSE)

\* Tokenizer::getNext on the tokenizer fields tk; the result carries the
\* new fields and the atom returned.
GetNextOp(d, tk) ==
  IF tk.hasNext
  THEN [tk |-> [tk EXCEPT !.hasNext = FALSE], ret |-> tk.next,
        scanned |-> FALSE]
  ELSE LET r == ScanLoop(d, tk.offset, tk.lineNum, <<>>, FALSE, FALSE)
       IN [tk |-> [tk EXCEPT !.offset = r.offset, !.lineNum = r.lineNum],
           ret |-> r.atom, scanned |-> TRUE]

\* A peekNext that returns the atom without remembering it.
PeekNextOp_NoFlag(d, tk) ==
  LET g == GetNextOp(d, tk)
  IN [tk |-> [g.tk EXCEPT !.next = g.ret], ret |-> g.ret,
      scanned |-> g.scanned]

\* Tokenizer::peekNext.
PeekNextOp(d, tk) ==
  LET g == GetNextOp(d, tk)
  IN [tk |-> [g.tk EXCEPT !.next = g.ret, !.hasNext = TRUE], ret |-> g.ret,
      scanned |-> g.scanned]

TokFields == [offset |-> offset, lineNum |-> lineNum, hasNext |-> hasNext,
              next |-> next]

TokApply(op, r) ==
  /\ offset' = r.tk.offset
  /\ lineNum' = r.tk.lineNum
  /\ hasNext' = r.tk.hasNext
  /\ next' = r.tk.next
  /\ calls' = Append(calls, [op |-> op, ret |-> r.ret])
  /\ lastScan' = IF r.scanned
                 THEN [from |-> offset, to |-> r.tk.offset, atom |-> r.ret]
                 ELSE lastScan
  /\ UNCHANGED <<data, parseVars, outVars, proc>>

\* No source file is being parsed.
ParseIdle ==
  /\ prog = <<>>
  /\ functions = <<>>
  /\ globals = <<>>
  /\ errors = <<>>
  /\ warnings = <<>>
  /\ status = "idle"
  /\ expr = <<>>

\* No function is being output.
OutIdle ==
  /\ fn = <<>>
  /\ al = <<>>
  /\ gen = <<>>
  /\ proc = <<>>

\* Tokenizer::Tokenizer: the buffer is the whole source file.
TokInit ==
  /\ ParseIdle
  /\ OutIdle
  /\ data \in SeqsUpTo(Chars, MaxDataLen)
  /\ offset = 0
  /\ lineNum = 1
  /\ hasNext = FALSE
  /\ next = EmptyAtom
  /\ calls = <<>>
  /\ lastScan = [from |-> 0, to |-> 0, atom |-> EmptyAtom]

TokIdle ==
  /\ data = <<>>
  /\ offset = 0
  /\ lineNum = 1
  /\ hasNext = FALSE
  /\ next = EmptyAtom
  /\ calls = <<>>
  /\ lastScan = [from |-> 0, to |-> 0, atom |-> EmptyAtom]

GetNext ==
  /\ Len(calls) < MaxCalls
  /\ TokApply("get", GetNextOp(data, TokFields))

PeekNext ==
  /\ Len(calls) < MaxCalls
  /\ TokApply("peek", PeekNextOp(data, TokFields))

TokNext == GetNext \/ PeekNext

SpecTok == TokInit /\ [][TokNext]_vars

(***************************************************************************)
(* Tokenizer properties                                                    *)
(***************************************************************************)
\* The atoms n successive getNext calls return when nothing is ever peeked.
RECURSIVE AtomsNoPeek(_, _, _, _)
AtomsNoPeek(d, off, line, n) ==
  IF n = 0 THEN <<>>
  ELSE LET r == ScanLoop(d, off, line, <<>>, FALSE, FALSE)
       IN <<r.atom>> \o AtomsNoPeek(d, r.offset, r.lineNum, n - 1)

RECURSIVE ConsumedOf(_)
ConsumedOf(cs) ==
  IF cs = <<>> THEN <<>>
  ELSE IF Head(cs).op = "get" THEN <<Head(cs).ret>> \o ConsumedOf(Tail(cs))
       ELSE ConsumedOf(Tail(cs))

\* C9: for any interleaving of peekNext and getNext, the call after a peek
\* (a getNext or another peekNext) returns the atom (text and line) the peek
\* returned, and the atoms returned by the getNext calls are exactly the
\* atoms returned when nothing is peeked: none skipped, none delivered twice.
Thm_C9_PeekConsume ==
  /\ \A i \in 2..Len(calls) :
       calls[i - 1].op = "peek" => calls[i].ret = calls[i - 1].ret
  /\ ConsumedOf(calls) = AtomsNoPeek(data, 0, 1, Len(ConsumedOf(calls)))

\* Two peeks, then two consumes delivering distinct non-empty atoms on
\* different lines.
Wit_C9_PeekConsume ==
  /\ Len(calls) >= 4
  /\ calls[1].op = "peek" /\ calls[2].op = "peek"
  /\ calls[3].op = "get" /\ calls[4].op = "get"
  /\ calls[3].ret.str # <<>> /\ calls[4].ret.str # <<>>
  /\ calls[3].ret.str # calls[4].ret.str
  /\ calls[4].ret.line > calls[3].ret.line

\* The offset just after the first "*/" that begins at or after offset o + 2
\* of d, where o is the offset of a "/*"; -1 when there is none.
CommentOpensAt(d, o) == o + 1 < Len(d) /\ d[o + 1] = "/" /\ d[o + 2] = "*"

CommentCloseAfter(d, o) ==
  LET starts == { j \in (o + 2)..(Len(d) - 2) : d[j + 1] = "*" /\ d[j + 2] = "/" }
  IN IF starts = {} THEN -1
     ELSE (CHOOSE j \in starts : \A k \in starts : j <= k) + 2

\* C10: a scan that starts at a block comment's "/*" skips up to and
\* including the first "*/" that begins after those two characters, and
\* resumes there: it returns the atom, and stops at the offset, that a scan
\* started just after that "*/" returns and stops at.
Claim_C10_BlockComment ==
  (CommentOpensAt(data, lastScan.from) /\ lastScan.to > lastScan.from
     /\ CommentCloseAfter(data, lastScan.from) # -1)
  => LET e == CommentCloseAfter(data, lastScan.from)
         r == ScanLoop(data, e, 1, <<>>, FALSE, FALSE)
     IN /\ lastScan.atom.str = r.atom.str
        /\ lastScan.to = r.offset

(***************************************************************************)
(* Lexical helpers (util.cpp) and literal / operator tokens (syntax.cpp)   *)
(***************************************************************************)
Digits == {"0", "1", "2", "3", "4", "5", "6", "7", "8", "9"}

LowerHex == {"a", "b", "c", "d", "e", "f"}

UpperHex == {"A", "B", "C", "D", "E", "F"}

Letters == {"a", "b", "c", "d", "e", "f", "g", "h", "i", "j", "k", "l", "m",
            "n", "o", "p", "q", "r", "s", "t", "u", "v", "w", "x", "y", "z",
            "A", "B", "C", "D", "E", "F", "G", "H", "I", "J", "K", "L", "M",
            "N", "O", "P", "Q", "R", "S", "T", "U", "V", "W", "X", "Y", "Z"}

\* c - '0', c - 'a' + 10 and c - 'A' + 10 of LiteralToken::parse.
HexVal(c) ==
  CASE c = "0" -> 0 [] c = "1" -> 1 [] c = "2" -> 2 [] c = "3" -> 3
    [] c = "4" -> 4 [] c = "5" -> 5 [] c = "6" -> 6 [] c = "7" -> 7
    [] c = "8" -> 8 [] c = "9" -> 9
    [] c \in {"a", "A"} -> 10 [] c \in {"b", "B"} -> 11
    [] c \in {"c", "C"} -> 12 [] c \in {"d", "D"} -> 13
    [] c \in {"e", "E"} -> 14 [] c \in {"f", "F"} -> 15

Word == 65536        \* uint16_t arithmetic is modulo 2^16

\* The accumulation loops of LiteralToken::parse, in uint16_t.
RECURSIVE Accumulate(_, _, _, _)
Accumulate(str, i, base, value) ==
  IF i > Len(str) THEN value
  ELSE Accumulate(str, i + 1, base, (value * base + HexVal(str[i])) % Word)

AllIn(str, from, S) == \A i \in from..Len(str) : str[i] \in S

\* LiteralToken::parse: [ok, val].
LiteralParse(str) ==
  IF Len(str) >= 3 /\ str[1] = "0" /\ str[2] \in {"x", "X"}
     /\ AllIn(str, 3, Digits \cup LowerHex \cup UpperHex)
  THEN [ok |-> TRUE, val |-> Accumulate(str, 3, 16, 0)]
  ELSE IF Len(str) >= 3 /\ str[1] = "0" /\ str[2] \in {"b", "B"}
          /\ AllIn(str, 3, {"0", "1"})
  THEN [ok |-> TRUE, val |-> Accumulate(str, 3, 2, 0)]
  ELSE IF Len(str) >= 1 /\ AllIn(str, 1, Digits)
  THEN [ok |-> TRUE, val |-> Accumulate(str, 1, 10, 0)]
  ELSE [ok |-> FALSE, val |-> 0]

isValidName(str) ==
  /\ Len(str) >= 1
  /\ str[1] \in Letters \cup {"_"}
  /\ AllIn(str, 2, Letters \cup Digits \cup {"_"})

isLabelDeclaration(str) ==
  /\ Len(str) >= 2
  /\ str[Len(str)] = ":"
  /\ isValidName(SubSeq(str, 1, Len(str) - 1))

kw_void == <<"v", "o", "i", "d">>
kw_uint16 == <<"u", "i", "n", "t", "1", "6">>
kw_if == <<"i", "f">>
kw_else == <<"e", "l", "s", "e">>
kw_for == <<"f", "o", "r">>
kw_while == <<"w", "h", "i", "l", "e">>
kw_do == <<"d", "o">>
kw_break == <<"b", "r", "e", "a", "k">>
kw_continue == <<"c", "o", "n", "t", "i", "n", "u", "e">>
kw_return == <<"r", "e", "t", "u", "r", "n">>
kw_goto == <<"g", "o", "t", "o">>

isType(str) == str \in {kw_void, kw_uint16}

otherParen(str) ==
  CASE str = <<"(">> -> <<")">> [] str = <<")">> -> <<"(">>
    [] str = <<"[">> -> <<"]">> [] str = <<"]">> -> <<"[">>
    [] str = <<"{">> -> <<"}">> [] str = <<"}">> -> <<"{">>
    [] OTHER -> <<>>

\* validOps of OperatorToken::parse, maybeBinary and maybeUnary.
ValidOps == { <<c>> : c \in {"+", "-", "*", "/", "%", "=", "&", "|", "^",
                             "~", "!", "<", ">", "["} }
            \cup TwoCharOps

MaybeBinaryOps == ValidOps \ { <<"~">>, <<"!">> }

MaybeUnaryOps == { <<c>> : c \in {"-", "*", "&", "~", "!", "+"} }

OperatorToken(op, binary, line) ==
  [k |-> "op", op |-> op, binary |-> binary, line |-> line]

\* Every binary operator on one level.
precedence_OneLevel(o) == IF ~o.binary THEN 2 ELSE 3

precedence(o) ==
  IF o.op = <<"[">> THEN 1
  ELSE IF ~o.binary THEN 2
  ELSE IF o.op \in {<<"*">>, <<"/">>, <<"%">>} THEN 3
  ELSE IF o.op \in {<<"+">>, <<"-">>} THEN 4
  ELSE IF o.op \in {<<"<", "<">>, <<">", ">">>} THEN 5
  ELSE IF o.op \in {<<"<">>, <<"<", "=">>, <<">">>, <<">", "=">>} THEN 6
  ELSE IF o.op \in {<<"=", "=">>, <<"!", "=">>} THEN 7
  ELSE IF o.op = <<"&">> THEN 8
  ELSE IF o.op = <<"^">> THEN 9
  ELSE IF o.op = <<"|">> THEN 10
  ELSE IF o.op = <<"&", "&">> THEN 11
  ELSE IF o.op = <<"|", "|">> THEN 12
  ELSE IF o.op = <<"=">> THEN 13
  ELSE -1

leftToRight(o) == o.binary

RECURSIVE Pow2(_)
Pow2(n) == IF n = 0 THEN 1 ELSE 2 * Pow2(n - 1)

\* Bitwise &, | and ^ on the low n bits.
RECURSIVE BitOp(_, _, _, _)
BitOp(f, a, b, n) ==
  IF n = 0 THEN 0
  ELSE LET x == a % 2
           y == b % 2
           bit == CASE f = "and" -> x * y
                    [] f = "or" -> IF x + y > 0 THEN 1 ELSE 0
                    [] f = "xor" -> (x + y) % 2
       IN bit + 2 * BitOp(f, a \div 2, b \div 2, n - 1)

IntMax == 2147483647     \* operands are promoted to a 32-bit int

\* lhs * rhs and lhs << rhs of two uint16_t values, reduced to uint16_t,
\* computed without leaving 32 bits.
MulLow(lhs, rhs) ==
  ((lhs % 256) * rhs + (((lhs \div 256) * rhs) % 256) * 256) % Word

ShlLow(lhs, rhs) == IF rhs >= 16 THEN 0 ELSE (lhs * Pow2(rhs)) % Word

ShrLow(lhs, rhs) == IF rhs >= 16 THEN 0 ELSE lhs \div Pow2(rhs)

\* The cases of OperatorToken::operate whose int arithmetic is undefined:
\* a product that overflows int, a shift by 32 or more, a left shift whose
\* result does not fit.
OperateUndefined(o, lhs, rhs) ==
  /\ o.binary
  /\ \/ o.op = <<"*">> /\ lhs # 0 /\ rhs > IntMax \div lhs
     \/ o.op \in {<<"<", "<">>, <<">", ">">>} /\ rhs >= 32
     \/ o.op = <<"<", "<">> /\ rhs = 31 /\ lhs # 0
     \/ o.op = <<"<", "<">> /\ rhs < 31 /\ lhs > IntMax \div Pow2(rhs)

\* OperatorToken::operate for the operators ExprToken::_evaluate passes to
\* it; the result is converted to uint16_t.  Where the int arithmetic is
\* undefined this is the result with the high bits dropped.
operate(o, lhs, rhs) ==
  LET b(x) == IF x THEN 1 ELSE 0
  IN
  IF ~o.binary
  THEN CASE o.op = <<"-">> -> (Word - rhs) % Word
         [] o.op = <<"~">> -> Word - 1 - rhs
         [] o.op = <<"!">> -> b(rhs = 0)
         [] o.op = <<"+">> -> rhs
  ELSE CASE o.op = <<"+">> -> (lhs + rhs) % Word
         [] o.op = <<"-">> -> (lhs - rhs + Word) % Word
         [] o.op = <<"*">> -> MulLow(lhs, rhs)
         [] o.op = <<"/">> -> IF rhs = 0 THEN Word - 1 ELSE lhs \div rhs
         [] o.op = <<"%">> -> IF rhs = 0 THEN Word - 1 ELSE lhs % rhs
         [] o.op = <<"&">> -> BitOp("and", lhs, rhs, 16)
         [] o.op = <<"|">> -> BitOp("or", lhs, rhs, 16)
         [] o.op = <<"^">> -> BitOp("xor", lhs, rhs, 16)
         [] o.op = <<"|", "|">> -> b(lhs # 0 \/ rhs # 0)
         [] o.op = <<"&", "&">> -> b(lhs # 0 /\ rhs # 0)
         [] o.op = <<"<">> -> b(lhs < rhs)
         [] o.op = <<"<", "=">> -> b(lhs <= rhs)
         [] o.op = <<">">> -> b(lhs > rhs)
         [] o.op = <<">", "=">> -> b(lhs >= rhs)
         [] o.op = <<"=", "=">> -> b(lhs = rhs)
         [] o.op = <<"!", "=">> -> b(lhs # rhs)
         [] o.op = <<"<", "<">> -> ShlLow(lhs, rhs)
         [] o.op = <<">", ">">> -> ShrLow(lhs, rhs)

\* "Division by zero in expression." of operate.
OperateWarns(o, rhs) == o.binary /\ o.op \in {<<"/">>, <<"%">>} /\ rhs = 0

(***************************************************************************)
(* Symbol tables (util.cpp).  A table is a sequence of records with a      *)
(* name; a lookup yields the index of the first match, 0 for nullptr.      *)
(***************************************************************************)
FirstNamed(name, table) ==
  LET S == { i \in 1..Len(table) : table[i].name = name }
  IN IF S = {} THEN 0 ELSE CHOOSE i \in S : \A j \in S : i <= j

getParameter(name, parameters) == FirstNamed(name, parameters)

getLocal(name, locals) == FirstNamed(name, locals)

getFunction(name, table) == FirstNamed(name, table)

getGlobal(name, table) == FirstNamed(name, table)

getLabel(name, labels) == FirstNamed(name, labels)

\* _error and _warn: the message is recorded with its line.
Error(ps, msg, line) ==
  [ps EXCEPT !.errors = Append(@, [msg |-> msg, line |-> line])]

Warn(ps, msg, line) ==
  [ps EXCEPT !.warnings = Append(@, [msg |-> msg, line |-> line])]

\* The parsing routines call one another, and the tokenizer, through Parse:
\* Parse(rule, ps, arg) is the routine named by rule, run on the parse
\* state ps.
RECURSIVE Parse(_, _, _)

\* tokenizer->peekNext() and tokenizer->getNext() on the parse state.
peekNext(ps) ==
  LET r == PeekNextOp(ps.data, ps.tk)
  IN [ps |-> [ps EXCEPT !.tk = r.tk], t |-> r.ret]

getNext(ps) ==
  LET r == GetNextOp(ps.data, ps.tk)
  IN [ps |-> [ps EXCEPT !.tk = r.tk], t |-> r.ret]

Peek(ps) == Parse("peekNext", ps, FALSE)

Get(ps) == Parse("getNext", ps, FALSE)

\* _expect
expect(ps, str) ==
  LET g == Get(ps)
  IN IF g.t.str = <<>>
     THEN [ok |-> FALSE, ps |-> Error(g.ps, "Unexpected EOF, expected", g.t.line)]
     ELSE IF g.t.str # str
     THEN [ok |-> FALSE,
           ps |-> Error(g.ps, "Unexpected token, expected", g.t.line)]
     ELSE [ok |-> TRUE, ps |-> g.ps]

Expect(ps, str) == Parse("expect", ps, str)

(***************************************************************************)
(* Expressions (ExprToken, FunctionCallToken)                              *)
(***************************************************************************)
Last(s) == s[Len(s)]

Front(s) == SubSeq(s, 1, Len(s) - 1)

RECURSIVE Reverse(_)
Reverse(s) == IF s = <<>> THEN <<>> ELSE Append(Reverse(Tail(s)), Head(s))

LiteralToken(val, line) == [k |-> "lit", val |-> val, line |-> line]

\* The AtomToken("(") that ExprToken::parse pushes on the operator stack.
ParenMark(line) == [k |-> "atom", line |-> line]

\* A pointer to a GlobalVarToken, ParamToken or LocalVarToken in _postfix.
VarRef(kind, name) == [k |-> kind, name |-> name]

\* The fields of an ExprToken.
EmptyExpr == [postfix |-> <<>>, const |-> TRUE, value |-> 0, line |-> -1,
              undefined |-> FALSE]

\* The locals of ExprToken::parse before its loop.
ExprStart == [prev |-> "", parens |-> <<>>, opStack |-> <<>>,
              postfix |-> <<>>, line |-> -1]

\* The precedence loop of ExprToken::parse for the operator o.
RECURSIVE PopForOp(_, _, _)
PopForOp(o, opStack, postfix) ==
  IF opStack = <<>> \/ Last(opStack).k # "op"
  THEN [opStack |-> opStack, postfix |-> postfix]
  ELSE LET topOp == Last(opStack)
       IN IF precedence(o) < precedence(topOp)
          THEN [opStack |-> opStack, postfix |-> postfix]
          ELSE IF precedence(o) = precedence(topOp)
          THEN IF leftToRight(o)
               THEN [opStack |-> Front(opStack),
                     postfix |-> Append(postfix, topOp)]
               ELSE [opStack |-> opStack, postfix |-> postfix]
          ELSE PopForOp(o, Front(opStack), Append(postfix, topOp))

\* Pops operators to _postfix until the top is not an operator.
RECURSIVE PopToParen(_, _)
PopToParen(opStack, postfix) ==
  IF opStack = <<>> \/ Last(opStack).k # "op"
  THEN [opStack |-> opStack, postfix |-> postfix]
  ELSE PopToParen(Front(opStack), Append(postfix, Last(opStack)))

\* ExprToken::_validate: [ok, line] with the line of the error.
RECURSIVE ValidateFrom(_, _, _)
ValidateFrom(postfix, i, operands) ==
  IF i > Len(postfix) THEN [ok |-> TRUE, msg |-> "", line |-> 0]
  ELSE LET token == postfix[i]
       IN
       IF token.k \in {"lit", "call"}
       THEN ValidateFrom(postfix, i + 1, Append(operands, "rvalue"))
       ELSE IF token.k \in {"global", "param", "local"}
       THEN ValidateFrom(postfix, i + 1, Append(operands, "lvalue"))
       ELSE IF token.k = "op"
       THEN LET rhs == Last(operands)
                rest == Front(operands)
                lhs == IF token.binary THEN Last(rest) ELSE ""
                rest2 == IF token.binary THEN Front(rest) ELSE rest
            IN
            IF token.op = <<"=">>
            THEN IF lhs = "rvalue"
                 THEN [ok |-> FALSE, msg |-> "Can't assign to an rvalue",
                       line |-> token.line]
                 ELSE ValidateFrom(postfix, i + 1, Append(rest2, "rvalue"))
            ELSE IF token.op = <<"*">> /\ ~token.binary
            THEN ValidateFrom(postfix, i + 1, Append(rest2, "lvalue"))
            ELSE IF token.op = <<"&">> /\ ~token.binary
            THEN IF rhs # "lvalue"
                 THEN [ok |-> FALSE, msg |-> "Can't get address of an rvalue",
                       line |-> token.line]
                 ELSE ValidateFrom(postfix, i + 1, Append(rest2, "rvalue"))
            ELSE IF token.op = <<"[">>
            THEN ValidateFrom(postfix, i + 1, Append(rest2, "lvalue"))
            ELSE ValidateFrom(postfix, i + 1, Append(rest2, "rvalue"))
       ELSE ValidateFrom(postfix, i + 1, operands)

validate(postfix) == ValidateFrom(postfix, 1, <<>>)

\* Token::val() of an operand of _evaluate: a literal or a global.  An
\* array global never has _value assigned.
OperandVal(token, gvars) ==
  IF token.k = "lit" THEN token.val
  ELSE gvars[getGlobal(token.name, gvars)].value

OperandValUndefined(token, gvars) ==
  token.k = "global" /\ ~gvars[getGlobal(token.name, gvars)].valueSet

\* ExprToken::_evaluate: [const, value, warnings, undefined].
RECURSIVE EvaluateFrom(_, _, _, _, _, _, _)
EvaluateFrom(postfix, i, operands, gvars, line, warns, undef) ==
  LET notConst == [const |-> FALSE, value |-> 0, warnings |-> warns,
                   undefined |-> undef]
  IN
  IF i > Len(postfix)
  THEN [const |-> TRUE, value |-> OperandVal(Last(operands), gvars),
        warnings |-> warns,
        undefined |-> undef \/ OperandValUndefined(Last(operands), gvars)]
  ELSE LET token == postfix[i]
       IN
       IF token.k \in {"lit", "global"}
       THEN EvaluateFrom(postfix, i + 1, Append(operands, token), gvars,
                         line, warns, undef)
       ELSE IF token.k \in {"param", "local", "call"}
       THEN notConst
       ELSE IF token.k = "op"
       THEN LET rhs == Last(operands)
                rest == Front(operands)
                hasLhs == token.binary
                lhs == IF hasLhs THEN Last(rest) ELSE rhs
                rest2 == IF hasLhs THEN Front(rest) ELSE rest
                rv == OperandVal(rhs, gvars)
                lv == IF hasLhs THEN OperandVal(lhs, gvars) ELSE 0
            IN
            IF (token.op = <<"=">> /\ token.binary)
               \/ (token.op \in {<<"&">>, <<"*">>} /\ ~token.binary)
            THEN notConst
            ELSE IF token.op = <<"[">> /\ token.binary
            THEN IF lhs.k # "global" THEN notConst
                 ELSE LET global == gvars[getGlobal(lhs.name, gvars)]
                      IN IF ~global.type.isArray THEN notConst
                         ELSE IF Len(global.arrayValues) <= rv
                         THEN [notConst EXCEPT
                                 !.warnings = Append(warns,
                                    [msg |-> "Array index out of bounds",
                                     line |-> line]),
                                 !.undefined =
                                    undef \/ OperandValUndefined(rhs, gvars)]
                         ELSE EvaluateFrom(postfix, i + 1,
                                Append(rest2,
                                  LiteralToken(global.arrayValues[rv + 1], -1)),
                                gvars, line, warns,
                                undef \/ OperandValUndefined(rhs, gvars))
            ELSE EvaluateFrom(postfix, i + 1,
                   Append(rest2, LiteralToken(operate(token, lv, rv), -1)),
                   gvars, line,
                   IF OperateWarns(token, rv)
                   THEN Append(warns, [msg |-> "Division by zero",
                                          line |-> token.line])
                   ELSE warns,
                   undef \/ OperateUndefined(token, lv, rv)
                         \/ OperandValUndefined(rhs, gvars)
                         \/ (hasLhs /\ OperandValUndefined(lhs, gvars)))
       ELSE notConst

evaluate(postfix, gvars, line) ==
  EvaluateFrom(postfix, 1, <<>>, gvars, line, <<>>, FALSE)

\* ExprToken::_flagNonRegs: the variables whose address is taken.
RECURSIVE FlagFrom(_, _, _, _)
FlagFrom(postfix, i, operands, flagged) ==
  IF i > Len(postfix) THEN flagged
  ELSE LET token == postfix[i]
       IN IF token.k = "op"
          THEN LET rhs == Last(operands)
                   rest == Front(operands)
                   rest2 == IF token.binary THEN Front(rest) ELSE rest
                   isVar == rhs.k \in {"global", "param", "local"}
               IN FlagFrom(postfix, i + 1, Append(rest2, [k |-> "null"]),
                           IF ~token.binary /\ token.op = <<"&">> /\ isVar
                           THEN flagged \cup {rhs} ELSE flagged)
          ELSE FlagFrom(postfix, i + 1, Append(operands, token), flagged)

flagNonRegs(postfix) == FlagFrom(postfix, 1, <<>>, {})

\* Variable::flagNonReg applied to the flagged variables of a table.
FlagTable(table, kind, flagged) ==
  [i \in 1..Len(table) |->
     IF VarRef(kind, table[i].name) \in flagged
     THEN [table[i] EXCEPT !.canBeReg = FALSE] ELSE table[i]]

RECURSIVE ExprLoop(_, _)
RECURSIVE ArgListLoop(_, _)

\* The argument loop of FunctionCallToken::parse: [ok, ps, arguments].
ArgListLoop(ps, arguments) ==
  LET e == Parse("Expr", ps, FALSE)
  IN IF ~e.ok THEN [ok |-> FALSE, ps |-> e.ps, arguments |-> arguments]
     ELSE LET pk == Peek(e.ps)
          IN IF pk.t.str # <<",">>
             THEN [ok |-> TRUE, ps |-> pk.ps,
                   arguments |-> Append(arguments, e.expr)]
             ELSE ArgListLoop(Get(pk.ps).ps, Append(arguments, e.expr))

\* FunctionCallToken::parse: [ok, ps, call].
FunctionCallParse(ps0) ==
  LET pk == Peek(ps0)
      line == pk.t.line
      g == Get(pk.ps)
      nameToken == g.t
      fail(p) == [ok |-> FALSE, ps |-> p, call |-> [k |-> "call"]]
      fi == getFunction(nameToken.str, g.ps.functions)
  IN
  IF nameToken.str = <<>> THEN fail(Error(g.ps, "Unexpected EOF", nameToken.line))
  ELSE IF ~isValidName(nameToken.str)
  THEN fail(Error(g.ps, "Invalid name for a function", nameToken.line))
  ELSE IF fi = 0 THEN fail(Error(g.ps, "Function does not exist", line))
  ELSE
    LET function == g.ps.functions[fi]
        open == Expect(g.ps, <<"(">>)
    IN
    IF ~open.ok THEN fail(open.ps)
    ELSE
      LET pk2 == Peek(open.ps)
          args == IF pk2.t.str # <<")">> THEN ArgListLoop(pk2.ps, <<>>)
                  ELSE [ok |-> TRUE, ps |-> pk2.ps, arguments |-> <<>>]
      IN
      IF ~args.ok THEN fail(args.ps)
      ELSE
        LET close == Expect(args.ps, <<")">>)
        IN
        IF ~close.ok THEN fail(close.ps)
        ELSE IF Len(args.arguments) # Len(function.parameters)
        THEN fail(Error(close.ps, "Invalid function call, expected arguments",
                        line))
        ELSE IF function.name = <<"m", "a", "i", "n">>
                /\ function.type.name = kw_void
                /\ Len(function.parameters) = 0
        THEN fail(Error(close.ps, "Illegal call to 'void main()'", line))
        ELSE [ok |-> TRUE, ps |-> close.ps,
              call |-> [k |-> "call", funcName |-> nameToken.str,
                        arguments |-> args.arguments, line |-> line]]

\* One iteration of the loop of ExprToken::parse on the loop's locals es:
\* [ps, es, ctl] where ctl tells how the iteration left the loop body.
ExprStep(ps0, es0) ==
  LET pk == Peek(ps0)
      t == pk.t
      ps == pk.ps
      es == IF es0.line = -1 THEN [es0 EXCEPT !.line = t.line] ELSE es0
      consumed == Get(ps).ps
      mayStart == es.prev \in {"", "(", "op"}
      mayEnd == es.prev \in {")", "val"}
      unexpected == [ps |-> Error(ps, "Unexpected token in expression", t.line),
                     es |-> es, ctl |-> "error"]
      break == [ps |-> ps, es |-> es, ctl |-> "break"]
      literal == LiteralParse(t.str)
      pushVal(kind) ==
        [ps |-> consumed,
         es |-> [es EXCEPT !.postfix = Append(@, VarRef(kind, t.str)),
                           !.prev = "val"],
         ctl |-> "continue"]
  IN
  IF t.str = <<"(">>
  THEN IF ~mayStart THEN unexpected
       ELSE [ps |-> consumed,
             es |-> [es EXCEPT !.prev = "(",
                               !.parens = Append(@, t.str),
                               !.opStack = Append(@, ParenMark(t.line))],
             ctl |-> "continue"]
  ELSE IF t.str \in {<<")">>, <<"]">>}
  THEN IF (es.parens # <<>> /\ otherParen(t.str) # Last(es.parens)) \/ ~mayEnd
       THEN unexpected
       ELSE IF es.parens = <<>> THEN break
       ELSE LET r == PopToParen(es.opStack, es.postfix)
            IN [ps |-> consumed,
                es |-> [es EXCEPT !.opStack = Front(r.opStack),
                                  !.postfix = r.postfix,
                                  !.parens = Front(@),
                                  !.prev = ")"],
                ctl |-> "continue"]
  ELSE IF literal.ok
  THEN IF ~mayStart THEN unexpected
       ELSE [ps |-> consumed,
             es |-> [es EXCEPT !.prev = "val",
                               !.postfix =
                                  Append(@, LiteralToken(literal.val, t.line))],
             ctl |-> "continue"]
  ELSE IF t.str \in ValidOps
  THEN IF ~((t.str \in MaybeBinaryOps /\ mayEnd)
            \/ (t.str \in MaybeUnaryOps /\ mayStart))
       THEN unexpected
       ELSE LET op == OperatorToken(t.str, t.str \in MaybeBinaryOps /\ mayEnd,
                                    t.line)
                r == PopForOp(op, es.opStack, es.postfix)
                pushed == Append(r.opStack, op)
            IN [ps |-> consumed,
                es |-> [es EXCEPT
                          !.postfix = r.postfix,
                          !.opStack = IF t.str = <<"[">>
                                      THEN Append(pushed, ParenMark(op.line))
                                      ELSE pushed,
                          !.parens = IF t.str = <<"[">> THEN Append(@, t.str)
                                     ELSE @,
                          !.prev = "op"],
                ctl |-> "continue"]
  ELSE IF isValidName(t.str)
  THEN IF getGlobal(t.str, ps.globals) # 0 THEN pushVal("global")
       ELSE IF getParameter(t.str, ps.parameters) # 0 THEN pushVal("param")
       ELSE IF getLocal(t.str, ps.localVars) # 0 THEN pushVal("local")
       ELSE IF getFunction(t.str, ps.functions) # 0
       THEN LET function == ps.functions[getFunction(t.str, ps.functions)]
            IN IF function.type.name = kw_void
               THEN [ps |-> Error(ps, "Function call to void not allowed in expression",
                                  t.line),
                     es |-> es, ctl |-> "error"]
               ELSE LET fnCall == Parse("FunctionCall", ps, FALSE)
                    IN IF ~fnCall.ok
                       THEN [ps |-> fnCall.ps, es |-> es, ctl |-> "error"]
                       ELSE [ps |-> fnCall.ps,
                             es |-> [es EXCEPT
                                       !.postfix = Append(@, fnCall.call),
                                       !.prev = "val"],
                             ctl |-> "continue"]
       ELSE [ps |-> Error(ps, "Unknown token", t.line), es |-> es,
             ctl |-> "error"]
  ELSE IF t.str = <<>>
  THEN IF es.parens # <<>> \/ ~mayEnd
       THEN [ps |-> Error(ps, "Unexpected EOF in expression", t.line),
             es |-> es, ctl |-> "error"]
       ELSE break
  ELSE IF es.parens # <<>> \/ ~mayEnd THEN unexpected
       ELSE break

ExprLoop(ps, es) ==
  LET r == ExprStep(ps, es)
  IN IF r.ctl = "continue" THEN ExprLoop(r.ps, r.es) ELSE r

\* The tail of ExprToken::parse once its loop has ended with a break: the
\* remaining operators are popped, then _validate, _evaluate, _flagNonRegs.
ExprFinish(ps, es) ==
  LET postfix == es.postfix \o Reverse(es.opStack)
      v == validate(postfix)
      ev == evaluate(postfix, ps.globals, es.line)
      flagged == flagNonRegs(postfix)
      filled == [postfix |-> postfix, const |-> ev.const, value |-> ev.value,
                 line |-> es.line, undefined |-> ev.undefined]
  IN
  IF ~v.ok
  THEN [ok |-> FALSE, ps |-> Error(ps, v.msg, v.line),
        expr |-> [EmptyExpr EXCEPT !.postfix = postfix, !.line = es.line]]
  ELSE [ok |-> TRUE,
        ps |-> [ps EXCEPT
                  !.warnings = @ \o ev.warnings,
                  !.globals = FlagTable(@, "global", flagged),
                  !.parameters = FlagTable(@, "param", flagged),
                  !.localVars = FlagTable(@, "local", flagged)],
        expr |-> filled]

\* ExprToken::parse: [ok, ps, expr].
ExprParse(ps) ==
  LET r == ExprLoop(ps, ExprStart)
  IN IF r.ctl = "error"
     THEN [ok |-> FALSE, ps |-> r.ps,
           expr |-> [EmptyExpr EXCEPT !.postfix = r.es.postfix,
                                      !.line = r.es.line]]
     ELSE ExprFinish(r.ps, r.es)

(***************************************************************************)
(* Types and declarations (TypeToken, ArrayExprToken, GlobalVarToken,      *)
(* ParamToken, LocalVarToken)                                              *)
(***************************************************************************)
\* TypeToken(): _isArray(false), _arraySize(-1) in a uint16_t.
EmptyType == [name |-> <<>>, isArray |-> FALSE, arraySize |-> Word - 1,
              line |-> -1]

\* TypeToken(name): the type of a builtin's result and parameters.
BuiltinType(name) == [name |-> name, isArray |-> FALSE, arraySize |-> 0,
                      line |-> -1]

\* TypeToken::parse: [ok, ps, type].
TypeParse(ps0) ==
  LET g == Get(ps0)
      typeName == g.t
      type == [EmptyType EXCEPT !.name = typeName.str, !.line = typeName.line]
      pk == Peek(g.ps)
  IN
  IF ~isType(typeName.str)
  THEN [ok |-> FALSE, ps |-> Error(g.ps, "Invalid type", typeName.line),
        type |-> EmptyType]
  ELSE IF pk.t.str = <<"[">>
  THEN LET e == Parse("Expr", Get(pk.ps).ps, FALSE)
           arr == [type EXCEPT !.isArray = TRUE]
       IN IF ~e.ok THEN [ok |-> FALSE, ps |-> e.ps, type |-> arr]
          ELSE IF ~e.expr.const
          THEN [ok |-> FALSE,
                ps |-> Error(e.ps, "Array size must be known at compile time",
                             e.expr.line),
                type |-> arr]
          ELSE LET x == Expect(e.ps, <<"]">>)
               IN [ok |-> x.ok, ps |-> x.ps,
                   type |-> [arr EXCEPT !.arraySize = e.expr.value]]
  ELSE [ok |-> TRUE, ps |-> pk.ps, type |-> type]

\* The loop of ArrayExprToken::parse: [ok, ps, exprs].
RECURSIVE ArrayExprLoop(_, _)
ArrayExprLoop(ps, exprs) ==
  LET e == Parse("Expr", ps, FALSE)
  IN IF ~e.ok THEN [ok |-> FALSE, ps |-> e.ps, exprs |-> exprs]
     ELSE LET g == Get(e.ps)
              got == Append(exprs, e.expr)
          IN IF g.t.str = <<"}">> THEN [ok |-> TRUE, ps |-> g.ps, exprs |-> got]
             ELSE IF g.t.str = <<>>
             THEN [ok |-> FALSE, ps |-> Error(g.ps, "Unexpected EOF", g.t.line),
                   exprs |-> got]
             ELSE IF g.t.str # <<",">>
             THEN [ok |-> FALSE,
                   ps |-> Error(g.ps, "Unexpected token", g.t.line),
                   exprs |-> got]
             ELSE ArrayExprLoop(g.ps, got)

\* ArrayExprToken::parse: [ok, ps, exprs].
ArrayExprParse(ps0) ==
  LET pk == Peek(ps0)
      x == Expect(pk.ps, <<"{">>)
  IN IF ~x.ok THEN [ok |-> FALSE, ps |-> x.ps, exprs |-> <<>>]
     ELSE LET pk2 == Peek(x.ps)
          IN IF pk2.t.str = <<"}">>
             THEN [ok |-> TRUE, ps |-> Get(pk2.ps).ps, exprs |-> <<>>]
             ELSE ArrayExprLoop(pk2.ps, <<>>)

\* The check of the token that must end a declaration.
ExpectLast(ps, last) ==
  IF last.str = <<>>
  THEN [ok |-> FALSE, ps |-> Error(ps, "Unexpected EOF", last.line)]
  ELSE IF last.str # <<";">>
  THEN [ok |-> FALSE, ps |-> Error(ps, "Unexpected token, expected ';'",
                                   last.line)]
  ELSE [ok |-> TRUE, ps |-> ps]

\* The index of the first expression that is not constant, 0 if none.
FirstNonConst(exprs) ==
  LET S == { i \in 1..Len(exprs) : ~exprs[i].const }
  IN IF S = {} THEN 0 ELSE CHOOSE i \in S : \A j \in S : i <= j

\* GlobalVarToken::parse for GlobalVarToken(type, name): [ok, ps, var].
\* valueSet tells whether _value was assigned.
GlobalVarParse(ps0, type, name) ==
  LET var0 == [k |-> "global", type |-> type, name |-> name, value |-> 0,
               valueSet |-> FALSE, arrayValues |-> <<>>, canBeReg |-> TRUE,
               line |-> type.line]
      fail(p) == [ok |-> FALSE, ps |-> p, var |-> var0]
      done(p, last, var) ==
        LET x == ExpectLast(p, last) IN [ok |-> x.ok, ps |-> x.ps, var |-> var]
      g == Get(ps0)
      nextTok == g.t
  IN
  IF type.name = kw_void
  THEN fail(Error(ps0, "Global var cannot be of type 'void'", type.line))
  ELSE IF ~isValidName(name)
  THEN fail(Error(ps0, "Invalid global var name", type.line))
  ELSE IF getFunction(name, ps0.functions) # 0
  THEN fail(Error(ps0, "Global var conflicts with existing function name",
                  type.line))
  ELSE IF getGlobal(name, ps0.globals) # 0
  THEN fail(Error(ps0, "Global var conflicts with existing global var name",
                  type.line))
  ELSE IF nextTok.str = <<"=">>
  THEN IF type.isArray
       THEN LET a == ArrayExprParse(g.ps)
                nc == FirstNonConst(a.exprs)
            IN IF ~a.ok THEN fail(a.ps)
               ELSE IF Len(a.exprs) # type.arraySize
               THEN fail(Error(a.ps, "Array size mismatch", type.line))
               ELSE IF nc # 0
               THEN fail(Error(a.ps, "Global value must be known at compile time",
                               a.exprs[nc].line))
               ELSE LET l == Get(a.ps)
                    IN done(l.ps, l.t,
                            [var0 EXCEPT !.arrayValues =
                               [i \in 1..Len(a.exprs) |-> a.exprs[i].value]])
       ELSE LET e == Parse("Expr", g.ps, FALSE)
            IN IF ~e.ok THEN fail(e.ps)
               ELSE IF ~e.expr.const
               THEN fail(Error(e.ps, "Global value must be known at compile time",
                               e.expr.line))
               ELSE LET l == Get(e.ps)
                    IN done(l.ps, l.t, [var0 EXCEPT !.value = e.expr.value,
                                                    !.valueSet = TRUE])
  ELSE IF nextTok.str = <<";">>
  THEN done(g.ps, nextTok,
            IF type.isArray
            THEN [var0 EXCEPT !.arrayValues = [i \in 1..type.arraySize |-> 0]]
            ELSE [var0 EXCEPT !.valueSet = TRUE])
  ELSE done(g.ps, nextTok, var0)

\* ParamToken::parse: [ok, ps, param].
ParamParse(ps0) ==
  LET ty == Parse("Type", ps0, FALSE)
      g == Get(ty.ps)
      nameToken == g.t
      param == [k |-> "param", type |-> ty.type, name |-> nameToken.str,
                canBeReg |-> TRUE, line |-> -1]
      fail(p) == [ok |-> FALSE, ps |-> p, param |-> param]
  IN
  IF ~ty.ok THEN fail(ty.ps)
  ELSE IF ty.type.isArray
  THEN fail(Error(ty.ps, "Array parameter types not supported", ty.type.line))
  ELSE IF ty.type.name = kw_void
  THEN fail(Error(ty.ps, "Parameter cannot be of type void", ty.type.line))
  ELSE IF nameToken.str = <<>>
  THEN fail(Error(g.ps, "Unexpected EOF", nameToken.line))
  ELSE IF ~isValidName(nameToken.str)
  THEN fail(Error(g.ps, "Invalid parameter name", nameToken.line))
  ELSE IF getFunction(nameToken.str, g.ps.functions) # 0
  THEN fail(Error(g.ps, "Parameter name conflicts with function name",
                  nameToken.line))
  ELSE IF getGlobal(nameToken.str, g.ps.globals) # 0
  THEN fail(Error(g.ps, "Parameter name conflicts with global var name",
                  nameToken.line))
  ELSE [ok |-> TRUE, ps |-> g.ps, param |-> param]

\* LocalVarToken::parse: [ok, ps, stmt].
LocalVarParse(ps0) ==
  LET pk == Peek(ps0)
      line == pk.t.line
      ty == Parse("Type", pk.ps, FALSE)
      type == ty.type
      g == Get(ty.ps)
      nameToken == g.t
      name == nameToken.str
      var0 == [k |-> "local", type |-> type, name |-> name,
               initExprs |-> <<>>, canBeReg |-> TRUE, line |-> line]
      fail(p) == [ok |-> FALSE, ps |-> p, stmt |-> var0]
      done(p, last, var) ==
        LET x == ExpectLast(p, last) IN [ok |-> x.ok, ps |-> x.ps, stmt |-> var]
      g2 == Get(g.ps)
      nextTok == g2.t
  IN
  IF ~ty.ok THEN fail(ty.ps)
  ELSE IF type.name = kw_void
  THEN fail(Error(ty.ps, "Local var cannot be of type 'void'", type.line))
  ELSE IF name = <<>> THEN fail(Error(g.ps, "Unexpected EOF", nameToken.line))
  ELSE IF ~isValidName(name)
  THEN fail(Error(g.ps, "Invalid local var name", type.line))
  ELSE IF getFunction(name, g.ps.functions) # 0
  THEN fail(Error(g.ps, "Local var conflicts with existing function name",
                  nameToken.line))
  ELSE IF getGlobal(name, g.ps.globals) # 0
  THEN fail(Error(g.ps, "Local var conflicts with existing global var name",
                  nameToken.line))
  ELSE IF getParameter(name, g.ps.parameters) # 0
  THEN fail(Error(g.ps, "Local var conflicts with existing parameter name",
                  nameToken.line))
  ELSE IF getLocal(name, g.ps.localVars) # 0
  THEN fail(Error(g.ps, "Local var conflicts with existing local var name",
                  nameToken.line))
  ELSE IF nextTok.str = <<"=">>
  THEN IF type.isArray
       THEN LET a == ArrayExprParse(g2.ps)
            IN IF ~a.ok THEN fail(a.ps)
               ELSE IF Len(a.exprs) # type.arraySize
               THEN fail(Error(a.ps, "Array size mismatch", line))
               ELSE LET l == Get(a.ps)
                    IN done(l.ps, l.t, [var0 EXCEPT !.initExprs = a.exprs])
       ELSE LET e == Parse("Expr", g2.ps, FALSE)
            IN IF ~e.ok THEN fail(e.ps)
               ELSE LET l == Get(e.ps)
                    IN done(l.ps, l.t, [var0 EXCEPT !.initExprs = <<e.expr>>])
  ELSE done(g2.ps, nextTok, var0)

(***************************************************************************)
(* Statements (StatementToken and its subclasses)                          *)
(***************************************************************************)
NoStatement == [k |-> "none"]

Failed(ps) == [ok |-> FALSE, ps |-> ps, stmt |-> NoStatement]

\* A comma-separated expression list (function arguments are parsed by
\* ArgListLoop; this is the INIT_LIST / LOOP_LIST loop of ForStatement).
ExprListParse(ps0, endStr) ==
  LET pk == Peek(ps0)
  IN IF pk.t.str # endStr
     THEN LET r == ArgListLoop(pk.ps, <<>>)
          IN [ok |-> r.ok, ps |-> r.ps, exprs |-> r.arguments]
     ELSE [ok |-> TRUE, ps |-> pk.ps, exprs |-> <<>>]

\* ExprToken(value): a constant expression.
ConstExpr(value) ==
  [EmptyExpr EXCEPT !.postfix = <<LiteralToken(value, -1)>>, !.value = value]

ExprStatementParse(ps0) ==
  LET pk == Peek(ps0)
      e == Parse("Expr", pk.ps, FALSE)
      x == Expect(e.ps, <<";">>)
  IN IF ~e.ok THEN Failed(e.ps)
     ELSE IF ~x.ok THEN Failed(x.ps)
     ELSE [ok |-> TRUE, ps |-> x.ps,
           stmt |-> [k |-> "expr", expr |-> e.expr, line |-> pk.t.line]]

VoidStatementParse(ps0) ==
  LET pk == Peek(ps0)
      line == pk.t.line
      c == Parse("FunctionCall", pk.ps, FALSE)
      fi == getFunction(c.call.funcName, c.ps.functions)
      x == Expect(c.ps, <<";">>)
  IN IF ~c.ok THEN Failed(c.ps)
     ELSE IF fi = 0 \/ c.ps.functions[fi].type.name # kw_void
     THEN Failed(Error(c.ps, "Expected function call to be of type 'void'",
                       line))
     ELSE IF ~x.ok THEN Failed(x.ps)
     ELSE [ok |-> TRUE, ps |-> x.ps,
           stmt |-> [k |-> "void", fnCall |-> c.call, line |-> line]]

BreakStatementParse(ps0, inLoop) ==
  LET pk == Peek(ps0)
      x1 == Expect(pk.ps, kw_break)
      x2 == Expect(x1.ps, <<";">>)
  IN IF ~x1.ok THEN Failed(x1.ps)
     ELSE IF ~x2.ok THEN Failed(x2.ps)
     ELSE IF ~inLoop
     THEN Failed(Error(x2.ps, "Must be within a loop statement to use 'break;'",
                       pk.t.line))
     ELSE [ok |-> TRUE, ps |-> x2.ps,
           stmt |-> [k |-> "break", line |-> pk.t.line]]

ContinueStatementParse(ps0, inLoop) ==
  LET pk == Peek(ps0)
      x1 == Expect(pk.ps, kw_continue)
      x2 == Expect(x1.ps, <<";">>)
  IN IF ~x1.ok THEN Failed(x1.ps)
     ELSE IF ~x2.ok THEN Failed(x2.ps)
     ELSE IF ~inLoop
     THEN Failed(Error(x2.ps,
                       "Must be within a loop statement to use 'continue;'",
                       pk.t.line))
     ELSE [ok |-> TRUE, ps |-> x2.ps,
           stmt |-> [k |-> "continue", line |-> pk.t.line]]

ReturnStatementParse(ps0) ==
  LET pk == Peek(ps0)
      line == pk.t.line
      x1 == Expect(pk.ps, kw_return)
      pk2 == Peek(x1.ps)
      hasExpr == pk2.t.str # <<";">>
      e == IF hasExpr THEN Parse("Expr", pk2.ps, FALSE)
           ELSE [ok |-> TRUE, ps |-> pk2.ps, expr |-> EmptyExpr]
      x2 == Expect(e.ps, <<";">>)
      isVoid == ps0.currentFunc.type.name = kw_void
  IN IF ~x1.ok THEN Failed(x1.ps)
     ELSE IF ~e.ok THEN Failed(e.ps)
     ELSE IF ~x2.ok THEN Failed(x2.ps)
     ELSE IF hasExpr /\ isVoid
     THEN Failed(Error(x2.ps, "Cannot return a value from a void function",
                       line))
     ELSE IF ~hasExpr /\ ~isVoid
     THEN Failed(Error(x2.ps,
                       "Return statement must include a value in a non-void function",
                       line))
     ELSE [ok |-> TRUE, ps |-> x2.ps,
           stmt |-> [k |-> "return", hasExpr |-> hasExpr,
                     returnExpr |-> e.expr, line |-> line]]

LabelStatementParse(ps0) ==
  LET pk == Peek(ps0)
      g == Get(pk.ps)
      t == g.t
  IN IF t.str = <<>> THEN Failed(Error(g.ps, "Unexpected EOF", t.line))
     ELSE IF ~isLabelDeclaration(t.str)
     THEN Failed(Error(g.ps, "Invalid label declaration", t.line))
     ELSE [ok |-> TRUE, ps |-> g.ps,
           stmt |-> [k |-> "label", name |-> Front(t.str),
                     line |-> pk.t.line]]

GotoStatementParse(ps0) ==
  LET pk == Peek(ps0)
      x1 == Expect(pk.ps, kw_goto)
      g == Get(x1.ps)
      labelToken == g.t
      x2 == Expect(g.ps, <<";">>)
  IN IF ~x1.ok THEN Failed(x1.ps)
     ELSE IF labelToken.str = <<>>
     THEN Failed(Error(g.ps, "Unexpected EOF", labelToken.line))
     ELSE IF ~isValidName(labelToken.str)
     THEN Failed(Error(g.ps, "Invalid label name in goto statement",
                       labelToken.line))
     ELSE IF ~x2.ok THEN Failed(x2.ps)
     ELSE [ok |-> TRUE, ps |-> x2.ps,
           stmt |-> [k |-> "goto", label |-> labelToken.str,
                     line |-> pk.t.line]]

RECURSIVE CompoundLoop(_, _, _)

\* The loop of CompoundStatement::parse: [ok, ps, statements].
CompoundLoop(ps0, inLoop, statements) ==
  LET pk == Peek(ps0)
  IN IF pk.t.str = <<"}">>
     THEN [ok |-> TRUE, ps |-> Get(pk.ps).ps, statements |-> statements]
     ELSE LET st == Parse("Statement", pk.ps, inLoop)
          IN IF ~st.ok
             THEN [ok |-> FALSE, ps |-> st.ps, statements |-> statements]
             ELSE IF st.stmt.k = "local"
             THEN [ok |-> FALSE,
                   ps |-> Error(st.ps,
                     "Local variables can only be declared as top level statements",
                     st.stmt.line),
                   statements |-> statements]
             ELSE CompoundLoop(st.ps, inLoop, Append(statements, st.stmt))

CompoundStatementParse(ps0, inLoop) ==
  LET pk == Peek(ps0)
      x == Expect(pk.ps, <<"{">>)
      r == CompoundLoop(x.ps, inLoop, <<>>)
  IN IF ~x.ok THEN Failed(x.ps)
     ELSE IF ~r.ok THEN Failed(r.ps)
     ELSE [ok |-> TRUE, ps |-> r.ps,
           stmt |-> [k |-> "compound", statements |-> r.statements,
                     line |-> pk.t.line]]

IfStatementParse(ps0, inLoop) ==
  LET pk == Peek(ps0)
      x1 == Expect(pk.ps, kw_if)
      x2 == Expect(x1.ps, <<"(">>)
      e == Parse("Expr", x2.ps, FALSE)
      x3 == Expect(e.ps, <<")">>)
      tr == Parse("Statement", x3.ps, inLoop)
      pk2 == Peek(tr.ps)
      hasElse == pk2.t.str = kw_else
      fa == IF hasElse THEN Parse("Statement", Get(pk2.ps).ps, inLoop)
            ELSE [ok |-> TRUE, ps |-> pk2.ps, stmt |-> NoStatement]
  IN IF ~x1.ok THEN Failed(x1.ps)
     ELSE IF ~x2.ok THEN Failed(x2.ps)
     ELSE IF ~e.ok THEN Failed(e.ps)
     ELSE IF ~x3.ok THEN Failed(x3.ps)
     ELSE IF ~tr.ok THEN Failed(tr.ps)
     ELSE IF ~fa.ok THEN Failed(fa.ps)
     ELSE [ok |-> TRUE, ps |-> fa.ps,
           stmt |-> [k |-> "if", condExpr |-> e.expr,
                     trueStatement |-> tr.stmt, hasElse |-> hasElse,
                     falseStatement |-> fa.stmt, line |-> pk.t.line]]

ForStatementParse(ps0) ==
  LET pk == Peek(ps0)
      x1 == Expect(pk.ps, kw_for)
      x2 == Expect(x1.ps, <<"(">>)
      init == ExprListParse(x2.ps, <<";">>)
      x3 == Expect(init.ps, <<";">>)
      pk2 == Peek(x3.ps)
      cond == IF pk2.t.str = <<";">>
              THEN [ok |-> TRUE, ps |-> pk2.ps, expr |-> ConstExpr(1)]
              ELSE Parse("Expr", pk2.ps, FALSE)
      x4 == Expect(cond.ps, <<";">>)
      loop == ExprListParse(x4.ps, <<")">>)
      x5 == Expect(loop.ps, <<")">>)
      body == Parse("Statement", x5.ps, TRUE)
  IN IF ~x1.ok THEN Failed(x1.ps)
     ELSE IF ~x2.ok THEN Failed(x2.ps)
     ELSE IF ~init.ok THEN Failed(init.ps)
     ELSE IF ~x3.ok THEN Failed(x3.ps)
     ELSE IF ~cond.ok THEN Failed(cond.ps)
     ELSE IF ~x4.ok THEN Failed(x4.ps)
     ELSE IF ~loop.ok THEN Failed(loop.ps)
     ELSE IF ~x5.ok THEN Failed(x5.ps)
     ELSE IF ~body.ok THEN Failed(body.ps)
     ELSE [ok |-> TRUE, ps |-> body.ps,
           stmt |-> [k |-> "for", initExprs |-> init.exprs,
                     condExpr |-> cond.expr, loopExprs |-> loop.exprs,
                     body |-> body.stmt, line |-> pk.t.line]]

WhileStatementParse(ps0) ==
  LET pk == Peek(ps0)
      x1 == Expect(pk.ps, kw_while)
      x2 == Expect(x1.ps, <<"(">>)
      e == Parse("Expr", x2.ps, FALSE)
      x3 == Expect(e.ps, <<")">>)
      body == Parse("Statement", x3.ps, TRUE)
  IN IF ~x1.ok THEN Failed(x1.ps)
     ELSE IF ~x2.ok THEN Failed(x2.ps)
     ELSE IF ~e.ok THEN Failed(e.ps)
     ELSE IF ~x3.ok THEN Failed(x3.ps)
     ELSE IF ~body.ok THEN Failed(body.ps)
     ELSE [ok |-> TRUE, ps |-> body.ps,
           stmt |-> [k |-> "while", condExpr |-> e.expr, body |-> body.stmt,
                     line |-> pk.t.line]]

DoWhileStatementParse(ps0) ==
  LET pk == Peek(ps0)
      x1 == Expect(pk.ps, kw_do)
      body == Parse("Statement", x1.ps, TRUE)
      x2 == Expect(body.ps, kw_while)
      x3 == Expect(x2.ps, <<"(">>)
      e == Parse("Expr", x3.ps, FALSE)
      x4 == Expect(e.ps, <<")">>)
      x5 == Expect(x4.ps, <<";">>)
  IN IF ~x1.ok THEN Failed(x1.ps)
     ELSE IF ~body.ok THEN Failed(body.ps)
     ELSE IF ~x2.ok THEN Failed(x2.ps)
     ELSE IF ~x3.ok THEN Failed(x3.ps)
     ELSE IF ~e.ok THEN Failed(e.ps)
     ELSE IF ~x4.ok THEN Failed(x4.ps)
     ELSE IF ~x5.ok THEN Failed(x5.ps)
     ELSE [ok |-> TRUE, ps |-> x5.ps,
           stmt |-> [k |-> "dowhile", condExpr |-> e.expr, body |-> body.stmt,
                     line |-> pk.t.line]]

\* StatementToken::parse: [ok, ps, stmt]; ok is FALSE for a null pointer.
StatementParse(ps0, inLoop) ==
  LET pk == Peek(ps0)
      t == pk.t
      ps == pk.ps
      fi == getFunction(t.str, ps.functions)
  IN
  IF t.str = <<>> THEN Failed(Error(ps, "Unexpected EOF", t.line))
  ELSE IF t.str = <<"{">> THEN CompoundStatementParse(ps, inLoop)
  ELSE IF t.str = kw_if THEN IfStatementParse(ps, inLoop)
  ELSE IF t.str = kw_for THEN ForStatementParse(ps)
  ELSE IF t.str = kw_while THEN WhileStatementParse(ps)
  ELSE IF t.str = kw_do THEN DoWhileStatementParse(ps)
  ELSE IF t.str = kw_break THEN BreakStatementParse(ps, inLoop)
  ELSE IF t.str = kw_continue THEN ContinueStatementParse(ps, inLoop)
  ELSE IF t.str = kw_return THEN ReturnStatementParse(ps)
  ELSE IF t.str = kw_goto
  THEN LET r == GotoStatementParse(ps)
       IN IF r.ok
          THEN [r EXCEPT !.ps = [r.ps EXCEPT !.gotos = Append(@, r.stmt)]]
          ELSE r
  ELSE IF t.str = <<";">>
  THEN [ok |-> TRUE, ps |-> Get(ps).ps,
        stmt |-> [k |-> "null", line |-> -1]]
  ELSE IF isLabelDeclaration(t.str)
  THEN LET r == LabelStatementParse(ps)
       IN IF r.ok
          THEN [r EXCEPT !.ps = [r.ps EXCEPT !.labels = Append(@, r.stmt)]]
          ELSE r
  ELSE IF isType(t.str) THEN LocalVarParse(ps)
  ELSE IF fi # 0 /\ ps.functions[fi].type.name = kw_void
  THEN VoidStatementParse(ps)
  ELSE ExprStatementParse(ps)

(***************************************************************************)
(* Functions (FunctionToken::parse) and the parser loop (Parser::parse)    *)
(***************************************************************************)
\* The parameter loop of FunctionToken::parse: [ok, ps, parameters].
RECURSIVE ParamLoop(_, _)
ParamLoop(ps0, parameters) ==
  LET pk == Peek(ps0)
  IN IF pk.t.str = <<")">>
     THEN [ok |-> TRUE, ps |-> pk.ps, parameters |-> parameters]
     ELSE LET p == Parse("Param", pk.ps, FALSE)
              fail(q) == [ok |-> FALSE, ps |-> q, parameters |-> parameters]
              pk2 == Peek(p.ps)
              t == pk2.t
              got == Append(parameters, p.param)
          IN IF ~p.ok THEN fail(p.ps)
             ELSE IF getParameter(p.param.name, parameters) # 0
             THEN fail(Error(p.ps,
                             "Parameter conflicts with existing parameter name",
                             p.param.line))
             ELSE IF t.str = <<>>
             THEN fail(Error(pk2.ps, "Unexpected EOF", t.line))
             ELSE IF t.str = <<",">> THEN ParamLoop(Get(pk2.ps).ps, got)
             ELSE IF t.str # <<")">>
             THEN fail(Error(pk2.ps, "Unexpected token", t.line))
             ELSE ParamLoop(pk2.ps, got)

\* The statement loop of FunctionToken::parse; the locals declared so far
\* are ps.localVars: [ok, ps, statements].
RECURSIVE BodyLoop(_, _, _)
BodyLoop(ps0, inDeclarations, statements) ==
  LET pk == Peek(ps0)
  IN IF pk.t.str = <<"}">>
     THEN [ok |-> TRUE, ps |-> pk.ps, statements |-> statements]
     ELSE LET st == Parse("Statement", pk.ps, FALSE)
              fail(q) == [ok |-> FALSE, ps |-> q, statements |-> statements]
              isLocal == st.stmt.k = "local"
              ps1 == IF isLocal
                     THEN [st.ps EXCEPT !.localVars = Append(@, st.stmt)]
                     ELSE st.ps
              pk2 == Peek(ps1)
          IN IF ~st.ok THEN fail(st.ps)
             ELSE IF isLocal /\ ~inDeclarations
             THEN fail(Error(st.ps,
                      "Declarations must come before other statements in function",
                      st.stmt.line))
             ELSE IF pk2.t.str = <<>>
             THEN fail(Error(pk2.ps, "Unexpected EOF", pk2.t.line))
             ELSE BodyLoop(pk2.ps, inDeclarations /\ isLocal,
                           IF isLocal THEN statements
                           ELSE Append(statements, st.stmt))

\* The final goto check left out: no goto is looked up.
GotoErrors_None(gotos, labels) == <<>>

\* The errors of the final goto check, one per goto without a label.
RECURSIVE GotoErrors(_, _)
GotoErrors(gotos, labels) ==
  IF gotos = <<>> THEN <<>>
  ELSE (IF getLabel(Head(gotos).label, labels) = 0
        THEN <<[msg |-> "Label does not exist for goto statement",
                line |-> Head(gotos).line]>>
        ELSE <<>>) \o GotoErrors(Tail(gotos), labels)

FunctionToken(type, name, parameters) ==
  [type |-> type, name |-> name, parameters |-> parameters,
   localVars |-> <<>>, labels |-> <<>>, gotos |-> <<>>, statements |-> <<>>,
   line |-> type.line]

\* The fields of the function being parsed that live in the parse state,
\* cleared when no function is being parsed.
NoFunction(ps) ==
  [ps EXCEPT !.parameters = <<>>, !.localVars = <<>>, !.labels = <<>>,
             !.gotos = <<>>, !.currentFunc = FunctionToken(EmptyType, <<>>, <<>>)]

\* FunctionToken::parse for FunctionToken(type, name): [ok, ps].  The
\* function is in ps.functions once its parameter list has been parsed.
FunctionParse(ps0, type, name) ==
  LET fail(q) == [ok |-> FALSE, ps |-> q]
      x1 == Expect(ps0, <<"(">>)
      pl == Parse("ParamLoop", x1.ps, <<>>)
      self == FunctionToken(type, name, pl.parameters)
      closed == Get(pl.ps).ps
      pushed == [closed EXCEPT !.functions = Append(@, self),
                               !.parameters = pl.parameters,
                               !.currentFunc = self]
      at == Len(pushed.functions)
      x2 == Expect(pushed, <<"{">>)
      bl == Parse("BodyLoop", x2.ps, <<TRUE, <<>>>>)
      \* the pointer in the table is this object: its fields follow it
      sync(q, statements) ==
        [q EXCEPT !.functions[at] =
           [self EXCEPT !.parameters = q.parameters,
                        !.localVars = q.localVars,
                        !.labels = q.labels,
                        !.gotos = q.gotos,
                        !.statements = statements]]
      end == sync(Get(bl.ps).ps, bl.statements)
      gerrs == GotoErrors(end.gotos, end.labels)
  IN
  IF type.isArray
  THEN fail(Error(ps0, "Function return type cannot be array-valued",
                  type.line))
  ELSE IF ~isValidName(name)
  THEN fail(Error(ps0, "Invalid function name", type.line))
  ELSE IF getFunction(name, ps0.functions) # 0
  THEN fail(Error(ps0, "Function conflicts with existing function name",
                  type.line))
  ELSE IF getGlobal(name, ps0.globals) # 0
  THEN fail(Error(ps0, "Function conflicts with existing global var name",
                  type.line))
  ELSE IF ~x1.ok THEN fail(x1.ps)
  ELSE IF ~pl.ok THEN fail(pl.ps)
  ELSE IF ~x2.ok THEN fail(NoFunction(sync(x2.ps, <<>>)))
  ELSE IF ~bl.ok THEN fail(NoFunction(sync(bl.ps, bl.statements)))
  ELSE [ok |-> gerrs = <<>>,
        ps |-> NoFunction([end EXCEPT !.errors = @ \o gerrs])]

\* A builtin of Parser::Parser.
Builtin(typeName, name, paramNames) ==
  FunctionToken(BuiltinType(typeName), name,
                [i \in 1..Len(paramNames) |->
                   [k |-> "param", type |-> BuiltinType(kw_uint16),
                    name |-> paramNames[i], canBeReg |-> TRUE, line |-> -1]])

Builtins ==
  << Builtin(kw_void, <<"C", "O", "L", "O", "R">>,
             << <<"c", "o", "l", "o", "r">> >>),
     Builtin(kw_void, <<"P", "I", "X", "E", "L">>, << <<"x">>, <<"y">> >>),
     Builtin(kw_void, <<"T", "I", "M", "E", "R", "S", "T">>, <<>>),
     Builtin(kw_uint16, <<"T", "I", "M", "E">>, <<>>),
     Builtin(kw_uint16, <<"I", "N", "P", "U", "T">>,
             << <<"i", "n", "p", "u", "t", "_", "i", "d">> >>),
     Builtin(kw_uint16, <<"R", "N", "D">>, <<>>) >>

id_main == <<"m", "a", "i", "n">>

\* The parse state of a Parser constructed on the source text d.
ParserStart(d) ==
  NoFunction(
    [data |-> d,
     tk |-> [offset |-> 0, lineNum |-> 1, hasNext |-> FALSE,
             next |-> EmptyAtom],
     functions |-> Builtins, globals |-> <<>>,
     parameters |-> <<>>, localVars |-> <<>>, labels |-> <<>>,
     gotos |-> <<>>, currentFunc |-> <<>>,
     errors |-> <<>>, warnings |-> <<>>])

\* One iteration of the loop of Parser::parse: [kind, ok, ps], where kind
\* is "eof" when the loop ends, "function" or "global" for the declaration
\* parsed, "bad" when the type or the name is missing.
ParserStep(ps0) ==
  LET pk == Peek(ps0)
      ty == Parse("Type", pk.ps, FALSE)
      g == Get(ty.ps)
      name == g.t
      pk2 == Peek(g.ps)
  IN
  IF pk.t.str = <<>> THEN [kind |-> "eof", ok |-> TRUE, ps |-> pk.ps]
  ELSE IF ~ty.ok THEN [kind |-> "bad", ok |-> FALSE, ps |-> ty.ps]
  ELSE IF name.str = <<>>
  THEN [kind |-> "bad", ok |-> FALSE,
        ps |-> Error(g.ps, "Unexpected EOF, expected global or function name",
                     0)]
  ELSE IF pk2.t.str = <<"(">>
  THEN LET f == Parse("Function", pk2.ps, <<ty.type, name.str>>)
       IN [kind |-> "function", ok |-> f.ok, ps |-> f.ps]
  ELSE LET v == Parse("GlobalVar", pk2.ps, <<ty.type, name.str>>)
       IN [kind |-> "global", ok |-> v.ok,
           ps |-> IF v.ok THEN [v.ps EXCEPT !.globals = Append(@, v.var)]
                  ELSE v.ps]

Parse(rule, ps, arg) ==
  CASE rule = "Expr" -> ExprParse(ps)
    [] rule = "ExprStep" -> ExprStep(ps, arg)
    [] rule = "ExprFinish" -> ExprFinish(ps, arg)
    [] rule = "FunctionCall" -> FunctionCallParse(ps)
    [] rule = "Type" -> TypeParse(ps)
    [] rule = "Statement" -> StatementParse(ps, arg)
    [] rule = "Declaration" -> ParserStep(ps)
    [] rule = "Function" -> FunctionParse(ps, arg[1], arg[2])
    [] rule = "GlobalVar" -> GlobalVarParse(ps, arg[1], arg[2])
    [] rule = "Param" -> ParamParse(ps)
    [] rule = "ParamLoop" -> ParamLoop(ps, arg)
    [] rule = "BodyLoop" -> BodyLoop(ps, arg[1], arg[2])
    [] rule = "peekNext" -> peekNext(ps)
    [] rule = "getNext" -> getNext(ps)
    [] rule = "expect" -> expect(ps, arg)

\* The entry point check that ends Parser::parse: [ok, ps].
EntryPointCheck(ps) ==
  LET ei == getFunction(id_main, ps.functions)
  IN IF ei = 0 \/ ps.functions[ei].type.name # kw_void
        \/ Len(ps.functions[ei].parameters) # 0
     THEN [ok |-> FALSE,
           ps |-> Error(ps, "No 'void main()' entry point found", 0)]
     ELSE [ok |-> TRUE, ps |-> ps]

\* Parser::parse run to its end from the parse state ps: [ok, ps].
RECURSIVE ParserLoop(_)
ParserLoop(ps) ==
  LET r == Parse("Declaration", ps, FALSE)
  IN IF r.kind = "eof" THEN EntryPointCheck(r.ps)
     ELSE IF ~r.ok THEN [ok |-> FALSE, ps |-> r.ps]
     ELSE ParserLoop(r.ps)

ParserParse(d) == ParserLoop(ParserStart(d))

(***************************************************************************)
(* The front end as a state machine: one step per iteration of the loop    *)
(* of Parser::parse, over the source files built from a pool of            *)
(* declarations.                                                           *)
(***************************************************************************)
MaxDecls == 3        \* declarations per source file

\* The text of a sequence of atoms, separated by single spaces.
RECURSIVE Src(_)
Src(atoms) ==
  IF atoms = <<>> THEN <<>>
  ELSE IF Len(atoms) = 1 THEN atoms[1]
  ELSE atoms[1] \o <<" ">> \o Src(Tail(atoms))

\* The text of a source file: one declaration, a sequence of atoms, per line.
RECURSIVE SourceOf(_)
SourceOf(decls) ==
  IF decls = <<>> THEN <<>>
  ELSE Src(Head(decls)) \o <<"\n">> \o SourceOf(Tail(decls))

LP == <<"(">>
RP == <<")">>
LB == <<"{">>
RB == <<"}">>
Semi == <<";">>
Assign == <<"=">>

D_main == <<kw_void, id_main, LP, RP, LB, RB>>
D_g == <<kw_void, <<"g">>, LP, RP, LB, RB>>
D_mainCallsG ==
  <<kw_void, id_main, LP, RP, LB, <<"g">>, LP, RP, Semi, RB>>
D_x == <<kw_uint16, <<"x">>, Semi>>
D_hUsesX ==
  <<kw_void, <<"h">>, LP, RP, LB, <<"x">>, Assign, <<"1">>, Semi, RB>>
D_hLocalX ==
  <<kw_void, <<"h">>, LP, RP, LB, kw_uint16, <<"x">>, Semi, RB>>
D_fParamF ==
  <<kw_void, <<"f">>, LP, kw_uint16, <<"f">>, RP, LB, RB>>
D_kIfLocal ==
  <<kw_void, <<"k">>, LP, RP, LB, kw_if, LP, <<"1">>, RP,
        kw_uint16, <<"y">>, Semi, RB>>
D_kLateLocal ==
  <<kw_void, <<"k">>, LP, RP, LB, Semi, kw_uint16, <<"y">>, Semi, RB>>
D_kBlockLocal ==
  <<kw_void, <<"k">>, LP, RP, LB, LB, kw_uint16, <<"y">>, Semi, RB, RB>>
D_if == <<kw_uint16, kw_if, Semi>>
D_arr0 == <<kw_uint16, <<"[">>, <<"0">>, <<"]">>, <<"a">>, Semi>>
D_arr2 == <<kw_uint16, <<"[">>, <<"2">>, <<"]">>, <<"a">>, Semi>>
D_bad == <<<<"f", "o", "o">>, <<"x">>, Semi>>

DeclPool == {D_main, D_g, D_mainCallsG, D_x, D_hUsesX, D_hLocalX, D_fParamF,
             D_kIfLocal, D_kLateLocal, D_kBlockLocal, D_if, D_arr0, D_arr2,
             D_bad}

\* The parse state held in the variables between two declarations.
PsNow ==
  [ParserStart(data) EXCEPT !.tk = TokFields, !.functions = functions,
                            !.globals = globals, !.errors = errors,
                            !.warnings = warnings]

FrontInit ==
  /\ prog \in SeqsUpTo(DeclPool, MaxDecls)
  /\ data = SourceOf(prog)
  /\ offset = 0
  /\ lineNum = 1
  /\ hasNext = FALSE
  /\ next = EmptyAtom
  /\ calls = <<>>
  /\ lastScan = [from |-> 0, to |-> 0, atom |-> EmptyAtom]
  /\ functions = Builtins
  /\ globals = <<>>
  /\ errors = <<>>
  /\ warnings = <<>>
  /\ status = "parsing"
  /\ expr = <<>>
  /\ OutIdle

\* The variables after a step of the parser that leaves the parse state ps
\* and, when the step ends parse(), its result.
FrontApply(ps, newStatus) ==
  /\ offset' = ps.tk.offset
  /\ lineNum' = ps.tk.lineNum
  /\ hasNext' = ps.tk.hasNext
  /\ next' = ps.tk.next
  /\ functions' = ps.functions
  /\ globals' = ps.globals
  /\ errors' = ps.errors
  /\ warnings' = ps.warnings
  /\ status' = newStatus
  /\ UNCHANGED <<data, calls, lastScan, prog, expr, outVars, proc>>

\* The step of the loop whose iteration r parsed a declaration of the kind.
DeclarationStep(r, kind) ==
  /\ r.kind = kind
  /\ FrontApply(r.ps, IF r.ok THEN "parsing" ELSE "rejected")

\* The result e of the entry point check becomes the result of parse().
EntryPointStep(e) == FrontApply(e.ps, IF e.ok THEN "accepted" ELSE "rejected")

\* The step of the loop whose iteration r found the end of the file.
EndStep(r) ==
  /\ r.kind = "eof"
  /\ EntryPointStep(EntryPointCheck(r.ps))

\* An iteration of the loop that parses a function.
ParseFunction ==
  /\ status = "parsing"
  /\ DeclarationStep(Parse("Declaration", PsNow, FALSE), "function")

\* An iteration of the loop that parses a global variable.
ParseGlobal ==
  /\ status = "parsing"
  /\ DeclarationStep(Parse("Declaration", PsNow, FALSE), "global")

\* An iteration of the loop that finds no type or no name.
ParseBadDeclaration ==
  /\ status = "parsing"
  /\ DeclarationStep(Parse("Declaration", PsNow, FALSE), "bad")

\* The iteration that finds the end of the file, and the entry point check.
ParseEnd ==
  /\ status = "parsing"
  /\ EndStep(Parse("Declaration", PsNow, FALSE))

FrontNext == ParseFunction \/ ParseGlobal \/ ParseBadDeclaration \/ ParseEnd

SpecFront == FrontInit /\ [][FrontNext]_vars

(***************************************************************************)
(* ExprToken::parse as a state machine: one step per iteration of its      *)
(* loop, on the expressions built from a pool of atoms and ended by ";",   *)
(* in a file that has declared the globals a and b.                        *)
(***************************************************************************)
MaxExprAtoms == 5    \* atoms per expression

id_a == <<"a">>
id_b == <<"b">>
lit_1 == <<"1">>

ExprPool == {id_a, id_b, lit_1, Assign, <<"+">>}

\* The global the parser holds after `uint16 name;`.
ScalarGlobal(name) ==
  [k |-> "global",
   type |-> [EmptyType EXCEPT !.name = kw_uint16, !.line = 0],
   name |-> name, value |-> 0, valueSet |-> TRUE, arrayValues |-> <<>>,
   canBeReg |-> TRUE, line |-> 0]

ExprInit ==
  /\ prog \in { <<e \o <<Semi>> >> : e \in SeqsUpTo(ExprPool, MaxExprAtoms) }
  /\ data = SourceOf(prog)
  /\ offset = 0
  /\ lineNum = 1
  /\ hasNext = FALSE
  /\ next = EmptyAtom
  /\ calls = <<>>
  /\ lastScan = [from |-> 0, to |-> 0, atom |-> EmptyAtom]
  /\ functions = Builtins
  /\ globals = <<ScalarGlobal(id_a), ScalarGlobal(id_b)>>
  /\ errors = <<>>
  /\ warnings = <<>>
  /\ status = "expression"
  /\ expr = [es |-> ExprStart, result |-> EmptyExpr]
  /\ OutIdle

\* The variables after a step of ExprToken::parse.
ExprApply(ps, es, result, newStatus) ==
  /\ offset' = ps.tk.offset
  /\ lineNum' = ps.tk.lineNum
  /\ hasNext' = ps.tk.hasNext
  /\ next' = ps.tk.next
  /\ globals' = ps.globals
  /\ errors' = ps.errors
  /\ warnings' = ps.warnings
  /\ status' = newStatus
  /\ expr' = [es |-> es, result |-> result]
  /\ UNCHANGED <<data, calls, lastScan, prog, functions, outVars, proc>>

ShiftStep(r) ==
  /\ r.ctl = "continue"
  /\ ExprApply(r.ps, r.es, expr.result, "expression")

FailStep(r) ==
  /\ r.ctl = "error"
  /\ ExprApply(r.ps, r.es,
               [EmptyExpr EXCEPT !.postfix = r.es.postfix, !.line = r.es.line],
               "rejected")

FinishStep(es, f) ==
  ExprApply(f.ps, es, f.expr, IF f.ok THEN "accepted" ELSE "rejected")

EndStep_Expr(r) ==
  /\ r.ctl = "break"
  /\ FinishStep(r.es, Parse("ExprFinish", r.ps, r.es))

\* An iteration of the loop that takes an atom into the expression.
ExprShift ==
  /\ status = "expression"
  /\ ShiftStep(Parse("ExprStep", PsNow, expr.es))

\* An iteration of the loop that reports an error: parse() returns false.
ExprFail ==
  /\ status = "expression"
  /\ FailStep(Parse("ExprStep", PsNow, expr.es))

\* The iteration that breaks out of the loop, then the remaining operators
\* are popped and the expression is validated and evaluated.
ExprEnd ==
  /\ status = "expression"
  /\ EndStep_Expr(Parse("ExprStep", PsNow, expr.es))

ExprNext == ExprShift \/ ExprFail \/ ExprEnd

SpecExpr == ExprInit /\ [][ExprNext]_vars

(***************************************************************************)
(* Expression properties                                                   *)
(***************************************************************************)
\* A postfix sequence as text: a variable by its name, an operator by its
\* characters, a literal by its value.
Rendered(postfix) ==
  [i \in 1..Len(postfix) |->
     IF postfix[i].k = "op" THEN postfix[i].op
     ELSE IF postfix[i].k = "lit" THEN postfix[i].val
     ELSE IF postfix[i].k = "call" THEN postfix[i].funcName
     ELSE postfix[i].name]

\* C3: for variables x, y and z, once parse() has returned on `x = y = z`
\* the expression is accepted (it has passed _validate) and its postfix
\* sequence is x y z = =.
Claim_C3_AssignRightAssoc ==
  \A x \in {id_a, id_b} : \A y \in {id_a, id_b} : \A z \in {id_a, id_b} :
    (prog = << <<x, Assign, y, Assign, z, Semi>> >> /\ status # "expression")
      => /\ status = "accepted"
         /\ Rendered(expr.result.postfix) = <<x, y, z, Assign, Assign>>

(***************************************************************************)
(* Front end properties                                                    *)
(***************************************************************************)
Settled == status \in {"accepted", "rejected"}

\* The name a declaration of the pool declares: the atom after its type.
DeclName(d) == IF d[2] = <<"[">> THEN d[5] ELSE d[2]

\* The atoms of the body of a function declaration, <<>> for a global.
BodyOf(d) ==
  LET opens == { k \in 1..Len(d) : d[k] = LB }
  IN IF opens = {} THEN <<>>
     ELSE SubSeq(d, (CHOOSE k \in opens : \A m \in opens : k <= m) + 1, Len(d))

\* The body of d refers to name: the name occurs in it other than as the
\* name of a local being declared.
Uses(d, name) ==
  \E k \in 1..Len(BodyOf(d)) :
    BodyOf(d)[k] = name /\ (k = 1 \/ ~isType(BodyOf(d)[k - 1]))

\* The declarations with the one at position j moved to position i < j.
MovedBefore(decls, j, i) ==
  SubSeq(decls, 1, i - 1) \o <<decls[j]>> \o SubSeq(decls, i, j - 1)
    \o SubSeq(decls, j + 1, Len(decls))

\* C1: when a function body refers to a function or global declared later in
\* the file, the front end accepts the program exactly when it accepts the
\* program with that later declaration moved before the function.
Claim_C1_OrderIndependent ==
  Settled =>
    \A i \in 1..Len(prog) : \A j \in (i + 1)..Len(prog) :
      Uses(prog[i], DeclName(prog[j]))
        => ((status = "accepted")
              <=> ParserParse(SourceOf(MovedBefore(prog, j, i))).ok)

\* The names of a table of functions, globals, parameters or locals.
NamesOf(table) == [i \in 1..Len(table) |-> table[i].name]

PairwiseDistinct(names) ==
  \A i \in 1..Len(names) : \A j \in 1..Len(names) :
    i # j => names[i] # names[j]

\* C2: in an accepted program, for every function f the program declares,
\* the names of all functions (the builtins among them), all globals, f's
\* parameters and f's locals are pairwise distinct.
Claim_C2_JointNamespace ==
  status = "accepted" =>
    \A n \in (Len(Builtins) + 1)..Len(functions) :
      PairwiseDistinct(NamesOf(functions) \o NamesOf(globals)
                         \o NamesOf(functions[n].parameters)
                         \o NamesOf(functions[n].localVars))

\* A local variable declaration occurs in the statement or below it.
RECURSIVE HasLocal(_)
HasLocal(stmt) ==
  CASE stmt.k = "local" -> TRUE
    [] stmt.k = "compound" ->
         \E n \in 1..Len(stmt.statements) : HasLocal(stmt.statements[n])
    [] stmt.k = "if" ->
         HasLocal(stmt.trueStatement)
           \/ (stmt.hasElse /\ HasLocal(stmt.falseStatement))
    [] stmt.k \in {"for", "while", "dowhile"} -> HasLocal(stmt.body)
    [] OTHER -> FALSE

\* C5: an accepted program has no local declaration after another statement
\* of a function body, inside a compound statement, or as the statement
\* governed by if, else, for, while or do: the statements of every function
\* (its leading declarations are its locals, not its statements) hold none.
Claim_C5_LocalsLeadTheBody ==
  status = "accepted" =>
    \A n \in 1..Len(functions) :
      \A m \in 1..Len(functions[n].statements) :
        ~HasLocal(functions[n].statements[m])

ReservedWords == {kw_if, kw_else, kw_for, kw_while, kw_do, kw_break,
                  kw_continue, kw_return, kw_goto, kw_void, kw_uint16}

\* C6: no global, function, parameter or local of an accepted program is
\* named by a reserved word.
Claim_C6_ReservedNames ==
  status = "accepted" =>
    /\ \A n \in 1..Len(globals) : globals[n].name \notin ReservedWords
    /\ \A n \in 1..Len(functions) :
         /\ functions[n].name \notin ReservedWords
         /\ \A m \in 1..Len(functions[n].parameters) :
              functions[n].parameters[m].name \notin ReservedWords
         /\ \A m \in 1..Len(functions[n].localVars) :
              functions[n].localVars[m].name \notin ReservedWords

\* C7: every array type of a global or a local of an accepted program has a
\* size strictly greater than 0.
Claim_C7_ArraySizePositive ==
  status = "accepted" =>
    /\ \A n \in 1..Len(globals) :
         globals[n].type.isArray => globals[n].type.arraySize > 0
    /\ \A n \in 1..Len(functions) :
         \A m \in 1..Len(functions[n].localVars) :
           functions[n].localVars[m].type.isArray
             => functions[n].localVars[m].type.arraySize > 0

(***************************************************************************)
(* Code generation: the Parser's output (writeln, writeInst, labels)       *)
(***************************************************************************)
ADDRESS_SIZE == 2
DATA_SIZE == 2
INST_SIZE == 4

HexDigits == <<"0", "1", "2", "3", "4", "5", "6", "7", "8", "9",
               "a", "b", "c", "d", "e", "f">>

RECURSIVE HexLoop(_, _)
HexLoop(value, digits) ==
  IF digits = 0 THEN <<>>
  ELSE HexLoop(value \div 16, digits - 1) \o <<HexDigits[(value % 16) + 1]>>

\* toHexStr: the value is taken as a uint16_t.
toHexStr(value, digits) == <<"0", "x">> \o HexLoop(value % Word, digits)

\* A line of the output file: an instruction, as its words, or "label:".
InstLine(words) == [k |-> "inst", words |-> words]

LabelLine(label) == [k |-> "label", label |-> label]

\* A label: the text name + suffix, followed by the decimal number n when
\* n > 0.  No name of the model ends in a digit, so distinct records are
\* distinct texts.
Label(name, suffix, n) == [text |-> name \o suffix, n |-> n]

\* The empty string passed for a label that does not exist.
NoLabel == Label(<<>>, <<>>, 0)

\* The texts the code appends to a function's name, and the two labels of
\* the bootloader.
s_end == <<"_", "e", "n", "d">>

s_if_false == <<"_", "i", "f", "_", "f", "a", "l", "s", "e">>

s_if_end == <<"_", "i", "f", "_", "e", "n", "d">>

s_for_start == <<"_", "f", "o", "r", "_", "s", "t", "a", "r", "t">>

s_for_break == <<"_", "f", "o", "r", "_", "b", "r", "e", "a", "k">>

s_for_continue ==
  <<"_", "f", "o", "r", "_", "c", "o", "n", "t", "i", "n", "u", "e">>

s_while_break ==
  <<"_", "w", "h", "i", "l", "e", "_", "b", "r", "e", "a", "k">>

s_while_continue ==
  <<"_", "w", "h", "i", "l", "e", "_", "c", "o", "n", "t", "i", "n", "u", "e">>

s_do_while_break ==
  <<"_", "d", "o", "_", "w", "h", "i", "l", "e", "_", "b", "r", "e", "a", "k">>

s_do_while_continue ==
  <<"_", "d", "o", "_", "w", "h", "i", "l", "e", "_", "c", "o", "n", "t", "i", "n", "u", "e">>

id_stack == <<"s", "t", "a", "c", "k">>

id_program_finished ==
  <<"p", "r", "o", "g", "r", "a", "m", "_", "f", "i", "n", "i", "s", "h", "e", "d">>

\* writeln that leaves a pending PUSH where it is.
writeln_NoFlush(g, line) == [g EXCEPT !.lines = Append(@, line)]

\* Parser::writeln: a pending PUSH is written first.  Once an exception has
\* been thrown (thrown holds its message) the stack is unwound to the
\* handler of main and nothing more is written.
writeln(g, line) ==
  IF g.thrown # "" THEN g ELSE
  [g EXCEPT !.lines = IF g.pendingPushReg # ""
                      THEN Append(Append(@, InstLine(<<"PUSH", g.pendingPushReg>>)),
                                  line)
                      ELSE Append(@, line),
            !.pendingPushReg = ""]

\* The last two statements of Parser::writeInst.
writeInstLine(g, words) ==
  IF g.thrown # "" THEN g ELSE
  [writeln(g, InstLine(words)) EXCEPT !.bytePos = @ + INST_SIZE]

\* writeInst with the operands of the MOV exchanged.
writeInst_MovReversed(g, words) ==
  IF g.pendingPushReg = "" /\ words[1] = "PUSH"
  THEN [g EXCEPT !.pendingPushReg = words[2]]
  ELSE IF g.pendingPushReg # "" /\ words[1] = "POP"
  THEN IF words[2] # g.pendingPushReg
       THEN writeInstLine([g EXCEPT !.pendingPushReg = ""],
                          <<"MOV", g.pendingPushReg, words[2]>>)
       ELSE [g EXCEPT !.pendingPushReg = ""]
  ELSE writeInstLine(g, words)

\* Parser::writeInst: a PUSH is held back, a POP that follows it cancels it
\* or turns the pair into a MOV.
writeInst(g, words) ==
  IF g.thrown # "" THEN g ELSE
  IF g.pendingPushReg = "" /\ words[1] = "PUSH"
  THEN [g EXCEPT !.pendingPushReg = words[2]]
  ELSE IF g.pendingPushReg # "" /\ words[1] = "POP"
  THEN IF words[2] # g.pendingPushReg
       THEN writeInstLine([g EXCEPT !.pendingPushReg = ""],
                          <<"MOV", words[2], g.pendingPushReg>>)
       ELSE [g EXCEPT !.pendingPushReg = ""]
  ELSE writeInstLine(g, words)

\* Parser::addLabel
addLabel(g, label) == [g EXCEPT !.assignedLabels = @ \cup {label}]

\* Parser::getUnusedLabel: [gen, label].
getUnusedLabel(g, name, suffix) ==
  LET used == { l.n : l \in { m \in g.assignedLabels :
                                m.text = name \o suffix } }
      n == IF 0 \notin used THEN 0
           ELSE CHOOSE i \in 1..(Cardinality(used) + 1) :
                  i \notin used /\ \A j \in 1..(i - 1) : j \in used
  IN [gen |-> addLabel(g, Label(name, suffix, n)),
      label |-> Label(name, suffix, n)]

\* The Parser's output before anything is written; marks is history: for
\* each loop written, its kind, its continue label and the number of the
\* line at which its continue point (the loop expressions of a for, the
\* condition of a while or do-while) begins.
NewOutput == [lines |-> <<>>, pendingPushReg |-> "", bytePos |-> 0,
              assignedLabels |-> {}, marks |-> <<>>, thrown |-> ""]

Mark(g, kind, label) ==
  [g EXCEPT !.marks =
     Append(@, [kind |-> kind, continueLabel |-> label,
                resume |-> Len(g.lines) + 1
                             + (IF g.pendingPushReg # "" THEN 1 ELSE 0)])]

\* The start of Parser::output up to the global variables, for a file whose
\* globals and functions have the given names: [gen, stackLabel].
RECURSIVE AddLabels(_, _)
AddLabels(g, names) ==
  IF names = <<>> THEN g
  ELSE AddLabels(addLabel(g, Label(Head(names), <<>>, 0)), Tail(names))

OutputStart(names) ==
  LET s == getUnusedLabel(AddLabels(NewOutput, names), id_stack, <<>>)
      f == getUnusedLabel(
             writeInst(writeInst(s.gen, <<"MOVI", "SP", s.label>>),
                       <<"CALL", Label(id_main, <<>>, 0)>>),
             id_program_finished, <<>>)
  IN [gen |-> writeInst(writeln(f.gen, LabelLine(f.label)),
                        <<"JMPI", f.label>>),
      stackLabel |-> s.label]

\* Parser::writeData: the byte position is then rounded up to a multiple of
\* INST_SIZE.
writeData(g, words, dataLength) ==
  [writeln(g, [k |-> "data", words |-> words]) EXCEPT
     !.bytePos = ((g.bytePos + dataLength * DATA_SIZE + INST_SIZE - 1)
                    \div INST_SIZE) * INST_SIZE]

\* GlobalVarToken::output
GlobalVarOutput(g, var) ==
  IF var.type.isArray
  THEN writeData(
         writeData(writeln(g, LabelLine(Label(var.name, <<>>, 0))),
                   <<toHexStr(g.bytePos + INST_SIZE, 4)>>, 1),
         [i \in 1..Len(var.arrayValues) |-> toHexStr(var.arrayValues[i], 4)],
         Len(var.arrayValues))
  ELSE writeData(writeln(g, LabelLine(Label(var.name, <<>>, 0))),
                 <<toHexStr(var.value, 4)>>, 1)

RECURSIVE GlobalsOutput(_, _)
GlobalsOutput(g, table) ==
  IF table = <<>> THEN g
  ELSE GlobalsOutput(GlobalVarOutput(g, Head(table)), Tail(table))

\* reg[0]++ walks the alphabet: a register is held as its position here.
RegNames == <<"A", "B", "C", "D", "E", "F", "G", "H", "I", "J", "K", "L">>

RegIndex(r) == CHOOSE i \in 1..Len(RegNames) : RegNames[i] = r

\* An Operand of the expression evaluation: ADDRESS and VALUE are on the
\* machine's stack, REGISTER names a register, LITERAL carries its value.
Operand(type, reg, literal) == [type |-> type, reg |-> reg, literal |-> literal]

\* VarLocation(reg) and VarLocation(offset)
RegLoc(reg) == [reg |-> reg, offset |-> 0]

StackLoc(off) == [reg |-> "", offset |-> off]

\* throw "msg"
throw(g, msg) == IF g.thrown # "" THEN g ELSE [g EXCEPT !.thrown = msg]

\* A run of writeInst and writeln calls.
RECURSIVE Emit(_, _)
Emit(g, lines) ==
  IF lines = <<>> THEN g
  ELSE Emit(IF Head(lines).k = "label" THEN writeln(g, Head(lines))
            ELSE writeInst(g, Head(lines).words),
            Tail(lines))

\* operandValueToReg
operandValueToReg(g, operand, reg) ==
  CASE operand.type = "ADDRESS" ->
         Emit(g, <<InstLine(<<"POP", reg>>), InstLine(<<"LOAD", reg, reg>>)>>)
    [] operand.type = "REGISTER" -> writeInst(g, <<"MOV", reg, operand.reg>>)
    [] operand.type = "VALUE" -> writeInst(g, <<"POP", reg>>)
    [] operand.type = "LITERAL" ->
         writeInst(g, <<"MOVI", reg, toHexStr(operand.literal, 4)>>)

id_label == <<"l", "a", "b", "e", "l">>

\* The instruction of an arithmetic operator and the jump of a comparison.
ArithInst(op) ==
  CASE op = <<"+">> -> "ADD" [] op = <<"-">> -> "SUB" [] op = <<"*">> -> "MUL"
    [] op = <<"/">> -> "DIV" [] op = <<"&">> -> "AND" [] op = <<"|">> -> "OR"
    [] op = <<"^">> -> "XOR" [] op = <<"<", "<">> -> "SHL"
    [] op = <<">", ">">> -> "SHRL"

CompareJump(op) ==
  CASE op = <<"<">> -> "JB" [] op = <<"<", "=">> -> "JBE"
    [] op = <<">">> -> "JA" [] op = <<">", "=">> -> "JAE"
    [] op = <<"=", "=">> -> "JEQ" [] op = <<"!", "=">> -> "JNE"

\* "TST r r", a jump to l1, "MOVI r a", "JMPI l2", "l1:", "MOVI r b", "l2:"
Truth(r, jump, a, b, l1, l2) ==
  <<InstLine(<<"TST", r, r>>), InstLine(<<jump, l1>>),
    InstLine(<<"MOVI", r, a>>), InstLine(<<"JMPI", l2>>), LabelLine(l1),
    InstLine(<<"MOVI", r, b>>), LabelLine(l2)>>

\* OperatorToken::output: [gen, operand].
OperatorOutput(g, o, lhs, rhs) ==
  LET l1 == getUnusedLabel(g, id_label, <<>>)
      l2 == getUnusedLabel(l1.gen, id_label, <<>>)
      l3 == getUnusedLabel(l2.gen, id_label, <<>>)
      l4 == getUnusedLabel(l3.gen, id_label, <<>>)
      value(gg) == [gen |-> gg, operand |-> Operand("VALUE", "", 0)]
      address(gg) == [gen |-> gg, operand |-> Operand("ADDRESS", "", 0)]
      toM(gg) == operandValueToReg(gg, rhs, "M")
      toNM(gg) == operandValueToReg(operandValueToReg(gg, rhs, "N"), lhs, "M")
  IN
  IF ~o.binary
  THEN CASE o.op = <<"-">> ->
              value(Emit(toM(g), <<InstLine(<<"MOVI", "N", "0xffff">>),
                                   InstLine(<<"XOR", "M", "N">>),
                                   InstLine(<<"MOVI", "N", "0x1">>),
                                   InstLine(<<"ADD", "M", "N">>),
                                   InstLine(<<"PUSH", "M">>)>>))
         [] o.op = <<"*">> ->
              address(IF rhs.type # "VALUE"
                      THEN writeInst(toM(g), <<"PUSH", "M">>) ELSE g)
         [] o.op = <<"&">> ->
              value(IF rhs.type # "ADDRESS"
                    THEN throw(g, "Right hand side must be an address for the address-of operator.")
                    ELSE g)
         [] o.op = <<"~">> ->
              value(Emit(toM(g), <<InstLine(<<"MOVI", "N", "0xffff">>),
                                   InstLine(<<"XOR", "M", "N">>),
                                   InstLine(<<"PUSH", "M">>)>>))
         [] o.op = <<"!">> ->
              value(Emit(toM(l2.gen),
                         Truth("M", "JNE", "0x1", "0x0", l1.label, l2.label)
                         \o <<InstLine(<<"PUSH", "M">>)>>))
         [] o.op = <<"+">> -> value(writeInst(toM(g), <<"PUSH", "M">>))
         [] OTHER -> value(g)
  ELSE CASE o.op = <<"%">> ->
              value(Emit(toNM(g), <<InstLine(<<"MOV", "L", "M">>),
                                    InstLine(<<"DIV", "M", "N">>),
                                    InstLine(<<"MUL", "M", "N">>),
                                    InstLine(<<"SUB", "L", "M">>),
                                    InstLine(<<"PUSH", "L">>)>>))
         [] o.op = <<"=">> ->
              value(writeInst(
                      IF lhs.type = "ADDRESS"
                      THEN Emit(operandValueToReg(g, rhs, "N"),
                                <<InstLine(<<"POP", "M">>),
                                  InstLine(<<"STOR", "N", "M">>)>>)
                      ELSE IF lhs.type = "REGISTER"
                      THEN writeInst(operandValueToReg(g, rhs, "N"),
                                     <<"MOV", lhs.reg, "N">>)
                      ELSE throw(operandValueToReg(g, rhs, "N"),
                                 "Left hand side of assignment cannot be an rvalue."),
                      <<"PUSH", "N">>))
         [] o.op \in {<<"+">>, <<"-">>, <<"*">>, <<"/">>, <<"&">>, <<"|">>,
                      <<"^">>, <<"<", "<">>, <<">", ">">>} ->
              value(Emit(toNM(g), <<InstLine(<<ArithInst(o.op), "M", "N">>),
                                    InstLine(<<"PUSH", "M">>)>>))
         [] o.op = <<"[">> ->
              address(Emit(toNM(g),
                           <<InstLine(<<"MOVI", "L", toHexStr(1, 4)>>),
                             InstLine(<<"SHL", "N", "L">>),
                             InstLine(<<"ADD", "M", "N">>),
                             InstLine(<<"PUSH", "M">>)>>))
         [] o.op \in {<<"|", "|">>, <<"&", "&">>} ->
              value(Emit(
                      operandValueToReg(
                        Emit(operandValueToReg(l4.gen, rhs, "N"),
                             Truth("N", "JEQ", "0x1", "0x0", l1.label,
                                   l2.label)),
                        lhs, "M"),
                      Truth("M", "JEQ", "0x1", "0x0", l3.label, l4.label)
                      \o <<InstLine(<<IF o.op = <<"|", "|">> THEN "OR"
                                      ELSE "AND", "M", "N">>),
                           InstLine(<<"PUSH", "M">>)>>))
         [] o.op \in {<<"<">>, <<"<", "=">>, <<">">>, <<">", "=">>,
                      <<"=", "=">>, <<"!", "=">>} ->
              value(Emit(toNM(l2.gen),
                         <<InstLine(<<"CMP", "M", "N">>),
                           InstLine(<<CompareJump(o.op), l1.label>>),
                           InstLine(<<"MOVI", "M", "0x0">>),
                           InstLine(<<"JMPI", l2.label>>),
                           LabelLine(l1.label),
                           InstLine(<<"MOVI", "M", "0x1">>),
                           LabelLine(l2.label),
                           InstLine(<<"PUSH", "M">>)>>))
         [] OTHER -> value(g)

\* "MOV M FP", then "MOVI L |offset|" and "ADD M L" or "SUB M L" when the
\* offset is not 0.
FrameAddress(g, off) ==
  IF off = 0 THEN writeInst(g, <<"MOV", "M", "FP">>)
  ELSE Emit(g, <<InstLine(<<"MOV", "M", "FP">>),
                 InstLine(<<"MOVI", "L",
                            toHexStr(IF 0 < off THEN off ELSE -off, 4)>>),
                 InstLine(<<IF 0 < off THEN "ADD" ELSE "SUB", "M", "L">>)>>)

\* The parameter or local of the function f that a token of _postfix
\* points to.
VarOf(f, token) ==
  IF token.k = "param"
  THEN f.parameters[getParameter(token.name, f.parameters)]
  ELSE f.localVars[getLocal(token.name, f.localVars)]

\* The output of an expression (ExprToken::output), of a call
\* (FunctionCallToken::output), of a statement (StatementToken::output and
\* its overrides) or of a local (LocalVarToken::output), by its rule.
RECURSIVE Output(_, _, _)

\* The loop of ExprToken::output from token i on: [gen, operands].
RECURSIVE ExprWalk(_, _, _, _, _)
ExprWalk(g, postfix, i, operands, f) ==
  IF i > Len(postfix) \/ g.thrown # ""
  THEN [gen |-> g, operands |-> operands]
  ELSE LET token == postfix[i]
       IN
       CASE token.k = "op" ->
              LET rhs == Last(operands)
                  rest == Front(operands)
                  lhs == IF token.binary THEN Last(rest) ELSE rhs
                  rest2 == IF token.binary THEN Front(rest) ELSE rest
                  r == OperatorOutput(g, token, lhs, rhs)
              IN ExprWalk(r.gen, postfix, i + 1, Append(rest2, r.operand), f)
         [] token.k = "global" ->
              ExprWalk(Emit(g, <<InstLine(<<"MOVI", "L", token.name>>),
                                 InstLine(<<"PUSH", "L">>)>>),
                       postfix, i + 1,
                       Append(operands, Operand("ADDRESS", "", 0)), f)
         [] token.k \in {"param", "local"} ->
              IF VarOf(f, token).reg # ""
              THEN ExprWalk(g, postfix, i + 1,
                            Append(operands,
                                   Operand("REGISTER", VarOf(f, token).reg, 0)),
                            f)
              ELSE ExprWalk(writeInst(FrameAddress(g, VarOf(f, token).offset),
                                      <<"PUSH", "M">>),
                            postfix, i + 1,
                            Append(operands, Operand("ADDRESS", "", 0)), f)
         [] token.k = "lit" ->
              ExprWalk(g, postfix, i + 1,
                       Append(operands, Operand("LITERAL", "", token.val)), f)
         [] token.k = "call" ->
              ExprWalk(writeInst(Output("FunctionCall", g, <<token, f>>),
                                 <<"PUSH", "L">>),
                       postfix, i + 1,
                       Append(operands, Operand("VALUE", "", 0)), f)

\* The end of ExprToken::output: the result goes to the location loc.
ExprStore(w, loc) ==
  IF w.gen.thrown # "" THEN w.gen
  ELSE IF loc.reg # "" THEN operandValueToReg(w.gen, Last(w.operands), loc.reg)
  ELSE writeInst(operandValueToReg(FrameAddress(w.gen, loc.offset),
                                   Last(w.operands), "L"),
                 <<"STOR", "L", "M">>)

\* ExprToken::output of the expression e of the function f to the location
\* loc.
ExprOutput(g, e, loc, f) == ExprStore(ExprWalk(g, e.postfix, 1, <<>>, f), loc)

RECURSIVE ExprListOutput(_, _, _, _)
ExprListOutput(g, exprs, loc, f) ==
  IF exprs = <<>> THEN g
  ELSE ExprListOutput(Output("Expr", g, <<Head(exprs), loc, f>>),
                      Tail(exprs), loc, f)

\* The loops of a general call: "PUSH A" to "PUSH D" for the registers used
\* as arguments, the first four arguments to A..D in order, the others to L
\* and pushed from the last one down.
RECURSIVE SaveArgRegs(_, _, _)
SaveArgRegs(g, i, n) ==
  IF i > n \/ i > 4 THEN g
  ELSE SaveArgRegs(writeInst(g, <<"PUSH", RegNames[i]>>), i + 1, n)

RECURSIVE RegArgs(_, _, _, _)
RegArgs(g, arguments, i, f) ==
  IF i > Len(arguments) \/ i > 4 THEN g
  ELSE RegArgs(Output("Expr", g, <<arguments[i], RegLoc(RegNames[i]), f>>),
               arguments, i + 1, f)

RECURSIVE OverflowArgs(_, _, _, _)
OverflowArgs(g, arguments, i, f) ==
  IF i < 5 THEN g
  ELSE OverflowArgs(writeInst(Output("Expr", g,
                                     <<arguments[i], RegLoc("L"), f>>),
                              <<"PUSH", "L">>),
                    arguments, i - 1, f)

RECURSIVE RestoreArgRegs(_, _)
RestoreArgRegs(g, i) ==
  IF i < 1 THEN g
  ELSE RestoreArgRegs(writeInst(g, <<"POP", RegNames[i]>>), i - 1)

Min(a, b) == IF a < b THEN a ELSE b

\* FunctionCallToken::output
FunctionCallOutput(g, call, f) ==
  LET arg(gg, i, r) ==
        Output("Expr", gg, <<call.arguments[i], RegLoc(r), f>>)
  IN
  CASE call.funcName = <<"C", "O", "L", "O", "R">> ->
         writeInst(arg(g, 1, "M"), <<"COLOR", "M">>)
    [] call.funcName = <<"P", "I", "X", "E", "L">> ->
         writeInst(arg(arg(g, 1, "M"), 2, "N"), <<"PIXEL", "M", "N">>)
    [] call.funcName = <<"T", "I", "M", "E", "R", "S", "T">> ->
         writeInst(g, <<"TIMERST">>)
    [] call.funcName = <<"T", "I", "M", "E">> -> writeInst(g, <<"TIME", "L">>)
    [] call.funcName = <<"I", "N", "P", "U", "T">> ->
         writeInst(arg(g, 1, "M"), <<"INPUT", "L", "M">>)
    [] call.funcName = <<"R", "N", "D">> -> writeInst(g, <<"RND", "L">>)
    [] OTHER ->
         RestoreArgRegs(
           writeInst(
             OverflowArgs(
               RegArgs(SaveArgRegs(g, 1, Len(call.arguments)),
                       call.arguments, 1, f),
               call.arguments, Len(call.arguments), f),
             <<"CALL", call.funcName>>),
           Min(Len(call.arguments), 4))

(***************************************************************************)
(* Code generation: the statements                                         *)
(***************************************************************************)
\* FunctionToken::toAsmLabel
toAsmLabel(f, srcLabel) ==
  IF getLabel(srcLabel, f.labels) = 0 THEN NoLabel
  ELSE f.labels[getLabel(srcLabel, f.labels)].asmLabel

\* The _asmLabel of the label statement being written.  _labels holds the
\* label statements themselves, in the order in which they are parsed and
\* written, and their assembly labels are distinct from every other label:
\* the statement is the first of _labels whose line is not yet written.
OwnAsmLabel(g, f) ==
  f.labels[Cardinality({ i \in 1..Len(f.labels) :
                           \E j \in 1..Len(g.lines) :
                             g.lines[j] = LabelLine(f.labels[i].asmLabel) })
             + 1].asmLabel

\* "MOV r FP" followed, when the offset is not 0, by "MOVI L off", "ADD r L".
AddressToReg(g, r, off) ==
  IF off = 0 THEN writeInst(g, <<"MOV", r, "FP">>)
  ELSE writeInst(writeInst(writeInst(g, <<"MOV", r, "FP">>),
                           <<"MOVI", "L", toHexStr(off, 4)>>),
                 <<"ADD", r, "L">>)

\* The initial values of an array local, element i at _dataOffset + 2 i.
RECURSIVE ArrayInitOutput(_, _, _, _)
ArrayInitOutput(g, v, i, f) ==
  IF i > Len(v.initExprs) THEN g
  ELSE ArrayInitOutput(
         Output("Expr", g, <<v.initExprs[i],
                    StackLoc(v.dataOffset + DATA_SIZE * (i - 1)), f>>),
         v, i + 1, f)

\* LocalVarToken::output
LocalVarOutput(g, v, f) ==
  IF v.type.isArray
  THEN ArrayInitOutput(
         IF v.reg # "" THEN AddressToReg(g, v.reg, v.dataOffset)
         ELSE writeInst(AddressToReg(AddressToReg(g, "M", v.offset), "N",
                                     v.dataOffset),
                        <<"STOR", "N", "M">>),
         v, 1, f)
  ELSE IF v.initExprs = <<>> THEN g
  ELSE Output("Expr", g,
              <<v.initExprs[1], [reg |-> v.reg, offset |-> v.offset], f>>)

\* CompoundStatement::output
RECURSIVE StatementsOutput(_, _, _, _, _, _)
StatementsOutput(g, statements, f, returnLabel, breakLabel, continueLabel) ==
  IF statements = <<>> THEN g
  ELSE StatementsOutput(
         Output("Statement", g, <<Head(statements), f, returnLabel, breakLabel,
                         continueLabel>>),
         Tail(statements), f, returnLabel, breakLabel, continueLabel)

\* The condition is evaluated in L, then tested: the jump follows.
TestOutput(g, condExpr, f) ==
  writeInst(Output("Expr", g, <<condExpr, RegLoc("L"), f>>),
            <<"TST", "L", "L">>)

\* IfStatement::output
IfOutput(g, s, f, returnLabel, breakLabel, continueLabel) ==
  LET fl == getUnusedLabel(g, f.name, s_if_false)
      el == getUnusedLabel(fl.gen, f.name, s_if_end)
      g1 == writeln(
              writeInst(
                Output("Statement", 
                  writeInst(TestOutput(el.gen, s.condExpr, f), <<"JEQ", fl.label>>), <<s.trueStatement, f, returnLabel, breakLabel, continueLabel>>),
                <<"JMPI", el.label>>),
              LabelLine(fl.label))
  IN writeln(IF s.hasElse
             THEN Output("Statement", g1, <<s.falseStatement, f, returnLabel,
                                  breakLabel, continueLabel>>)
             ELSE g1,
             LabelLine(el.label))

\* ForStatement::output
ForOutput(g, s, f, returnLabel) ==
  LET st == getUnusedLabel(ExprListOutput(g, s.initExprs, RegLoc("L"), f), f.name,
                           s_for_start)
      br == getUnusedLabel(st.gen, f.name, s_for_break)
      co == getUnusedLabel(br.gen, f.name, s_for_continue)
      g1 == writeln(
              Output("Statement", 
                writeInst(TestOutput(writeln(co.gen, LabelLine(st.label)),
                                     s.condExpr, f),
                          <<"JEQ", br.label>>), <<s.body, f, returnLabel, br.label, co.label>>),
              LabelLine(co.label))
  IN writeln(writeInst(ExprListOutput(Mark(g1, "for", co.label), s.loopExprs,
                                      RegLoc("L"), f),
                       <<"JMPI", st.label>>),
             LabelLine(br.label))

\* WhileStatement::output
WhileOutput(g, s, f, returnLabel) ==
  LET br == getUnusedLabel(g, f.name, s_while_break)
      co == getUnusedLabel(br.gen, f.name, s_while_continue)
      g1 == writeInst(
              TestOutput(Mark(writeln(co.gen, LabelLine(co.label)), "while",
                              co.label),
                         s.condExpr, f),
              <<"JEQ", br.label>>)
  IN writeln(writeInst(Output("Statement", g1, <<s.body, f, returnLabel, br.label,
                                       co.label>>),
                       <<"JMPI", co.label>>),
             LabelLine(br.label))

\* DoWhileStatement::output
DoWhileOutput(g, s, f, returnLabel) ==
  LET br == getUnusedLabel(g, f.name, s_do_while_break)
      co == getUnusedLabel(br.gen, f.name, s_do_while_continue)
      g1 == Output("Statement", writeln(co.gen, LabelLine(co.label)), <<s.body, f,
                            returnLabel, br.label, co.label>>)
  IN writeln(writeInst(TestOutput(Mark(g1, "dowhile", co.label), s.condExpr,
                                  f),
                       <<"JNE", co.label>>),
             LabelLine(br.label))

\* ReturnStatement::output
ReturnOutput(g, s, returnLabel, f) ==
  writeInst(IF s.hasExpr
            THEN Output("Expr", g, <<s.returnExpr, RegLoc("L"), f>>)
            ELSE g,
            <<"JMPI", returnLabel>>)

\* StatementToken::output and its overrides; a null statement writes
\* nothing.
StatementOutput(g, s, f, returnLabel, breakLabel, continueLabel) ==
  CASE s.k = "compound" ->
         StatementsOutput(g, s.statements, f, returnLabel, breakLabel,
                          continueLabel)
    [] s.k = "local" -> LocalVarOutput(g, s, f)
    [] s.k = "expr" -> Output("Expr", g, <<s.expr, RegLoc("L"), f>>)
    [] s.k = "void" -> Output("FunctionCall", g, <<s.fnCall, f>>)
    [] s.k = "if" ->
         IfOutput(g, s, f, returnLabel, breakLabel, continueLabel)
    [] s.k = "for" -> ForOutput(g, s, f, returnLabel)
    [] s.k = "while" -> WhileOutput(g, s, f, returnLabel)
    [] s.k = "dowhile" -> DoWhileOutput(g, s, f, returnLabel)
    [] s.k = "break" -> writeInst(g, <<"JMPI", breakLabel>>)
    [] s.k = "continue" -> writeInst(g, <<"JMPI", continueLabel>>)
    [] s.k = "return" -> ReturnOutput(g, s, returnLabel, f)
    [] s.k = "label" -> writeln(g, LabelLine(OwnAsmLabel(g, f)))
    [] s.k = "goto" -> writeInst(g, <<"JMPI", toAsmLabel(f, s.label)>>)
    [] s.k = "null" -> g

RECURSIVE LocalsOutput(_, _, _)
LocalsOutput(g, localVars, f) ==
  IF localVars = <<>> THEN g
  ELSE LocalsOutput(LocalVarOutput(g, Head(localVars), f), Tail(localVars), f)

Output(rule, g, arg) ==
  CASE rule = "Expr" -> ExprOutput(g, arg[1], arg[2], arg[3])
    [] rule = "FunctionCall" -> FunctionCallOutput(g, arg[1], arg[2])
    [] rule = "Statement" ->
         StatementOutput(g, arg[1], arg[2], arg[3], arg[4], arg[5])
    [] rule = "Locals" -> LocalsOutput(g, arg[1], arg[2])

(***************************************************************************)
(* Code generation: FunctionToken::output                                  *)
(***************************************************************************)
\* A parameter or local before FunctionToken::output: VarLocation() leaves
\* _reg empty and _offset unassigned (offsetSet tells whether it has been
\* assigned), a LocalVarToken leaves _dataOffset unassigned.
Unlocated(v) ==
  [k |-> v.k, type |-> v.type, name |-> v.name, canBeReg |-> v.canBeReg,
   initExprs |-> IF v.k = "local" THEN v.initExprs ELSE <<>>,
   reg |-> "", offset |-> 0, offsetSet |-> FALSE, dataOffset |-> 0]

\* The first loop: parameters to A..D, then to the stack from -ADDRESS_SIZE
\* down: [parameters, numOverflowParams].
RECURSIVE ParamAssignLoop(_, _, _, _, _)
ParamAssignLoop(parameters, i, reg, off, numOverflowParams) ==
  IF i > Len(parameters)
  THEN [parameters |-> parameters, numOverflowParams |-> numOverflowParams]
  ELSE IF reg <= RegIndex("D")
  THEN ParamAssignLoop([parameters EXCEPT ![i].reg = RegNames[reg]], i + 1,
                       reg + 1, off, numOverflowParams)
  ELSE ParamAssignLoop([parameters EXCEPT ![i].offset = off,
                                          ![i].offsetSet = TRUE],
                       i + 1, reg, off - DATA_SIZE, numOverflowParams + 1)

\* One local of the second loop, given whether it gets the register reg.
LocalPlaced(v, inReg, reg, off) ==
  IF inReg THEN [v EXCEPT !.reg = RegNames[reg]]
  ELSE [v EXCEPT !.offset = off, !.offsetSet = TRUE]

LocalWithData(v, off) ==
  IF v.type.isArray THEN [v EXCEPT !.dataOffset = (off + DATA_SIZE) % Word]
  ELSE v

\* The second loop: locals to E..K, pushed as callee-saved registers, or to
\* frame pointer offsets from 0 up:
\* [gen, localVars, offset, extraParamOffset, savedRegisters].
RECURSIVE LocalAssignLoop(_, _, _, _, _, _, _)
LocalAssignLoop(g, localVars, i, reg, off, extraParamOffset, saved) ==
  IF i > Len(localVars)
  THEN [gen |-> g, localVars |-> localVars, offset |-> off,
        extraParamOffset |-> extraParamOffset, savedRegisters |-> saved]
  ELSE IF reg <= RegIndex("K") /\ localVars[i].canBeReg
  THEN LocalAssignLoop(
         writeInst(g, <<"PUSH", RegNames[reg]>>),
         [localVars EXCEPT ![i] =
            LocalWithData(LocalPlaced(@, TRUE, reg, off), off)],
         i + 1, reg + 1,
         IF localVars[i].type.isArray
         THEN off + localVars[i].type.arraySize * DATA_SIZE ELSE off,
         extraParamOffset - DATA_SIZE, Append(saved, RegNames[reg]))
  ELSE LocalAssignLoop(
         g,
         [localVars EXCEPT ![i] =
            LocalWithData(LocalPlaced(@, FALSE, reg, off), off + DATA_SIZE)],
         i + 1, reg,
         IF localVars[i].type.isArray
         THEN off + DATA_SIZE + localVars[i].type.arraySize * DATA_SIZE
         ELSE off + DATA_SIZE,
         extraParamOffset, saved)

\* The third loop with every stack parameter left where the first loop put
\* it.
RECURSIVE ParamFixLoop_NoSavedRegs(_, _, _, _, _)
ParamFixLoop_NoSavedRegs(g, parameters, i, off, extraParamOffset) ==
  IF i > Len(parameters)
  THEN [gen |-> g, parameters |-> parameters, offset |-> off]
  ELSE IF parameters[i].reg # "" /\ ~parameters[i].canBeReg
  THEN ParamFixLoop_NoSavedRegs(
         writeInst(g, <<"PUSH", parameters[i].reg>>),
         [parameters EXCEPT ![i].offset = off, ![i].offsetSet = TRUE],
         i + 1, off + DATA_SIZE, extraParamOffset)
  ELSE ParamFixLoop_NoSavedRegs(g, parameters, i + 1, off, extraParamOffset)

\* The third loop: a register parameter whose address is taken is pushed
\* and gets the next local offset; a stack parameter is moved down by the
\* saved registers: [gen, parameters, offset].
RECURSIVE ParamFixLoop(_, _, _, _, _)
ParamFixLoop(g, parameters, i, off, extraParamOffset) ==
  IF i > Len(parameters)
  THEN [gen |-> g, parameters |-> parameters, offset |-> off]
  ELSE IF parameters[i].reg # "" /\ ~parameters[i].canBeReg
  THEN ParamFixLoop(
         writeInst(g, <<"PUSH", parameters[i].reg>>),
         [parameters EXCEPT ![i].offset = off, ![i].offsetSet = TRUE],
         i + 1, off + DATA_SIZE, extraParamOffset)
  ELSE IF parameters[i].reg = ""
  THEN ParamFixLoop(
         g,
         [parameters EXCEPT ![i].offset = @ + extraParamOffset],
         i + 1, off, extraParamOffset)
  ELSE ParamFixLoop(g, parameters, i + 1, off, extraParamOffset)

\* "MOVI L offset", "ADD SP L" when locals live on the stack.
ReserveOutput(g, off) ==
  IF 0 < off
  THEN writeInst(writeInst(g, <<"MOVI", "L", toHexStr(off, 4)>>),
                 <<"ADD", "SP", "L">>)
  ELSE g

\* The assembly labels of the function's labels: [gen, labels].
RECURSIVE AsmLabelLoop(_, _, _, _)
AsmLabelLoop(g, name, labels, i) ==
  IF i > Len(labels) THEN [gen |-> g, labels |-> labels]
  ELSE AsmLabelLoop(
         getUnusedLabel(g, name, <<"_">> \o labels[i].name).gen, name,
         [labels EXCEPT ![i] =
            [name |-> labels[i].name,
             asmLabel |-> getUnusedLabel(g, name, <<"_">> \o labels[i].name).label]],
         i + 1)

\* The saved registers are popped from the top of the stack down.
RECURSIVE PopSaved(_, _)
PopSaved(g, saved) ==
  IF saved = <<>> THEN g
  ELSE PopSaved(writeInst(g, <<"POP", Last(saved)>>), Front(saved))

\* The epilogue of FunctionToken::output.
EpilogueOutput(g, endLabel, saved, numOverflowParams) ==
  writeInst(
    PopSaved(writeInst(writeln(g, LabelLine(endLabel)), <<"MOV", "SP", "FP">>),
             saved),
    IF 0 < numOverflowParams
    THEN <<"RET", toHexStr(numOverflowParams * DATA_SIZE, 2)>>
    ELSE <<"RET">>)

(***************************************************************************)
(* Parser::output as a state machine: the bootloader and the globals are   *)
(* written at the start, then one step per section of                      *)
(* FunctionToken::output for each function in turn, then the stack label.  *)
(***************************************************************************)
MaxParams == 6       \* parameters of the function f
MaxLocals == 2       \* locals of the function f
MaxStmts == 2        \* statements of the body of g

\* isBuiltin: the six names of the builtins of Parser::Parser.
isBuiltin(funcName) == \E i \in 1..Len(Builtins) : Builtins[i].name = funcName

\* A function as FunctionToken::output finds it: no location assigned, no
\* assembly label assigned, no register saved.
NewFunctionOutput(f) ==
  [name |-> f.name,
   parameters |-> [i \in 1..Len(f.parameters) |-> Unlocated(f.parameters[i])],
   localVars |-> [i \in 1..Len(f.localVars) |-> Unlocated(f.localVars[i])],
   labels |-> [i \in 1..Len(f.labels) |->
                 [name |-> f.labels[i].name, asmLabel |-> NoLabel]],
   statements |-> f.statements,
   savedRegisters |-> <<>>]

\* The locals of FunctionToken::output and of the loop of Parser::output:
\* rest is the functions still to be written.
NewAlloc(rest, stackLabel) ==
  [pc |-> "params", i |-> 1, offset |-> 0, numOverflowParams |-> 0,
   extraParamOffset |-> 0, endLabel |-> NoLabel, rest |-> rest,
   stackLabel |-> stackLabel]

\* FunctionToken::output returns at once for a builtin.
RECURSIVE SkipBuiltins(_)
SkipBuiltins(fs) ==
  IF fs = <<>> THEN <<>>
  ELSE IF isBuiltin(Head(fs).name) THEN SkipBuiltins(Tail(fs))
  ELSE fs

\* The state when Parser::output reaches the first function that is not a
\* builtin, s being the output of its start.
OutputBegin(s, ps) ==
  /\ fn = NewFunctionOutput(Head(SkipBuiltins(ps.functions)))
  /\ al = NewAlloc(SkipBuiltins(Tail(SkipBuiltins(ps.functions))),
                   s.stackLabel)
  /\ gen = GlobalsOutput(s.gen, ps.globals)

\* Parser::output is run on the files that Parser::parse accepted.
OutputInit(r) ==
  /\ r.ok
  /\ OutputBegin(OutputStart(NamesOf(r.ps.globals) \o NamesOf(r.ps.functions)),
                 r.ps)

OutApply(f, a, g) ==
  /\ fn' = f
  /\ al' = a
  /\ gen' = g
  /\ UNCHANGED <<tokVars, parseVars, proc>>

ParamsStep(e, pa) ==
  OutApply([fn EXCEPT !.parameters = pa.parameters],
           [al EXCEPT !.pc = "locals", !.endLabel = e.label,
                      !.numOverflowParams = pa.numOverflowParams],
           writeln(e.gen, LabelLine(Label(fn.name, <<>>, 0))))

\* The end label, the function's label and the first loop.
AssignParameters ==
  /\ gen.thrown = ""
  /\ al.pc = "params"
  /\ ParamsStep(getUnusedLabel(gen, fn.name, s_end),
                ParamAssignLoop(fn.parameters, 1, RegIndex("A"),
                                -ADDRESS_SIZE, 0))

LocalsStep(la) ==
  OutApply([fn EXCEPT !.localVars = la.localVars,
                      !.savedRegisters = la.savedRegisters],
           [al EXCEPT !.pc = "frame", !.offset = la.offset,
                      !.extraParamOffset = la.extraParamOffset],
           la.gen)

\* The second loop.
AssignLocals ==
  /\ gen.thrown = ""
  /\ al.pc = "locals"
  /\ LocalsStep(LocalAssignLoop(gen, fn.localVars, 1, RegIndex("E"), 0, 0,
                                <<>>))

FrameStep(pf) ==
  OutApply([fn EXCEPT !.parameters = pf.parameters,
                      !.savedRegisters = Append(@, "FP")],
           [al EXCEPT !.pc = "reserve", !.offset = pf.offset,
                      !.extraParamOffset = @ - DATA_SIZE],
           pf.gen)

\* "PUSH FP", "MOV FP SP" and the third loop.
SaveFramePointer ==
  /\ gen.thrown = ""
  /\ al.pc = "frame"
  /\ FrameStep(ParamFixLoop(
                 writeInst(writeInst(gen, <<"PUSH", "FP">>),
                           <<"MOV", "FP", "SP">>),
                 fn.parameters, 1, al.offset,
                 al.extraParamOffset - DATA_SIZE))

ReserveStep(r) ==
  OutApply([fn EXCEPT !.labels = r.labels],
           [al EXCEPT !.pc = "statements", !.i = 1],
           r.gen)

\* The stack space of the locals, their initial values, the assembly labels.
ReserveLocals ==
  /\ gen.thrown = ""
  /\ al.pc = "reserve"
  /\ ReserveStep(AsmLabelLoop(
                   Output("Locals", ReserveOutput(gen, al.offset),
                          <<fn.localVars, fn>>),
                   fn.name, fn.labels, 1))

\* One iteration of the statement loop.
OutputStatement ==
  /\ gen.thrown = ""
  /\ al.pc = "statements"
  /\ al.i <= Len(fn.statements)
  /\ OutApply(fn, [al EXCEPT !.i = @ + 1],
              Output("Statement", gen,
                     <<fn.statements[al.i], fn, al.endLabel, NoLabel,
                       NoLabel>>))

\* The epilogue: the saved registers are popped off _savedRegisters.
OutputEnd ==
  /\ gen.thrown = ""
  /\ al.pc = "statements"
  /\ al.i > Len(fn.statements)
  /\ OutApply([fn EXCEPT !.savedRegisters = <<>>],
              [al EXCEPT !.pc = "end"],
              EpilogueOutput(gen, al.endLabel, fn.savedRegisters,
                             al.numOverflowParams))

\* The loop of Parser::output goes to the next function.
NextFunction ==
  /\ gen.thrown = ""
  /\ al.pc = "end"
  /\ al.rest # <<>>
  /\ OutApply(NewFunctionOutput(Head(al.rest)),
              NewAlloc(SkipBuiltins(Tail(al.rest)), al.stackLabel),
              gen)

\* The last line of Parser::output.
WriteStack ==
  /\ gen.thrown = ""
  /\ al.pc = "end"
  /\ al.rest = <<>>
  /\ OutApply(fn, [al EXCEPT !.pc = "done"],
              writeln(gen, LabelLine(al.stackLabel)))

OutNext ==
  \/ AssignParameters
  \/ AssignLocals
  \/ SaveFramePointer
  \/ ReserveLocals
  \/ OutputStatement
  \/ OutputEnd
  \/ NextFunction
  \/ WriteStack

\* The state in which Parser::parse, having returned true with the result
\* r, leaves the tokenizer and the parser.
ParsedState(r) ==
  /\ offset = r.ps.tk.offset
  /\ lineNum = r.ps.tk.lineNum
  /\ hasNext = r.ps.tk.hasNext
  /\ next = r.ps.tk.next
  /\ calls = <<>>
  /\ lastScan = [from |-> 0, to |-> 0, atom |-> EmptyAtom]
  /\ functions = r.ps.functions
  /\ globals = r.ps.globals
  /\ errors = r.ps.errors
  /\ warnings = r.ps.warnings
  /\ status = "accepted"
  /\ expr = <<>>
  /\ proc = <<>>
  /\ OutputInit(r)

(***************************************************************************)
(* The allocator: the source files "void f(<parameters>) { <locals>        *)
(* <statements> }  void main() { }" where f has up to MaxParams            *)
(* parameters, at most one of them with its address taken, and up to       *)
(* MaxLocals locals, each a scalar, a scalar with its address taken or an   *)
(* array.                                                                  *)
(***************************************************************************)
\* The names p, px, pxx, ... and l, lx, lxx, ...
ParamName(i) == <<"p">> \o [j \in 1..(i - 1) |-> "x"]

LocalName(i) == <<"l">> \o [j \in 1..(i - 1) |-> "x"]

RECURSIVE ParamAtoms(_, _)
ParamAtoms(i, n) ==
  IF i > n THEN <<>>
  ELSE (IF i > 1 THEN << <<",">> >> ELSE <<>>)
         \o <<kw_uint16, ParamName(i)>> \o ParamAtoms(i + 1, n)

LocalKinds == {"scalar", "addressed", "array"}

RECURSIVE LocalAtoms(_, _)
LocalAtoms(kinds, i) ==
  IF i > Len(kinds) THEN <<>>
  ELSE (IF kinds[i] = "array"
        THEN <<kw_uint16, <<"[">>, <<"2">>, <<"]">>, LocalName(i), Semi>>
        ELSE <<kw_uint16, LocalName(i), Semi>>) \o LocalAtoms(kinds, i + 1)

\* The statement "& name ;".
AddressAtoms(name) == << <<"&">>, name, Semi >>

RECURSIVE LocalAddressAtoms(_, _)
LocalAddressAtoms(kinds, i) ==
  IF i > Len(kinds) THEN <<>>
  ELSE (IF kinds[i] = "addressed" THEN AddressAtoms(LocalName(i)) ELSE <<>>)
         \o LocalAddressAtoms(kinds, i + 1)

\* f with n parameters, the address of parameter a taken when a > 0, and
\* locals of the given kinds.
D_f(n, a, kinds) ==
  <<kw_void, <<"f">>, LP>> \o ParamAtoms(1, n) \o <<RP, LB>>
    \o LocalAtoms(kinds, 1)
    \o (IF a > 0 THEN AddressAtoms(ParamName(a)) ELSE <<>>)
    \o LocalAddressAtoms(kinds, 1) \o <<RB>>

AllocInit ==
  /\ \E n \in 0..MaxParams, kinds \in SeqsUpTo(LocalKinds, MaxLocals) :
       \E a \in 0..n : prog = <<D_f(n, a, kinds), D_main>>
  /\ data = SourceOf(prog)
  /\ ParsedState(ParserParse(data))

SpecAlloc == AllocInit /\ [][OutNext]_vars

(***************************************************************************)
(* The statements: the source files "uint16 c; uint16 x; void g() {        *)
(* <statements> }  void main() { }" with up to MaxStmts statements from a  *)
(* pool.                                                                   *)
(***************************************************************************)
id_c == <<"c">>

id_x == <<"x">>

D_c == <<kw_uint16, id_c, Semi>>

Cond == <<LP, id_c, RP>>

S_expr == <<id_x, Assign, <<"1">>, Semi>>

S_null == <<Semi>>

S_block == <<LB>> \o S_expr \o <<RB>>

S_if == <<kw_if>> \o Cond \o S_expr \o <<kw_else, id_x, Assign, <<"2">>, Semi>>

S_while == <<kw_while>> \o Cond \o <<kw_continue, Semi>>

S_do == <<kw_do, kw_continue, Semi, kw_while>> \o Cond \o <<Semi>>

S_doPlain == <<kw_do>> \o S_expr \o <<kw_while>> \o Cond \o <<Semi>>

S_doIf ==
  <<kw_do, LB>> \o S_expr \o <<kw_if>> \o Cond \o <<kw_continue, Semi, RB,
                                                     kw_while>>
    \o Cond \o <<Semi>>

S_for ==
  <<kw_for, LP, Semi, id_c, Semi, id_x, Assign, <<"2">>, RP, kw_continue,
    Semi>>

S_forBreak == <<kw_for, LP, Semi, Semi, RP, kw_break, Semi>>

S_nest == <<kw_while>> \o Cond \o S_do

S_goto == <<LB, <<"l", ":">>, kw_goto, <<"l">>, Semi, RB>>

S_return == <<kw_return, Semi>>

S_call == << <<"T", "I", "M", "E", "R", "S", "T">>, LP, RP, Semi >>

StmtPool == {S_expr, S_null, S_block, S_if, S_while, S_do, S_doPlain, S_doIf,
             S_for, S_forBreak, S_nest, S_goto, S_return, S_call}

RECURSIVE Flatten(_)
Flatten(seqs) == IF seqs = <<>> THEN <<>> ELSE Head(seqs) \o Flatten(Tail(seqs))

D_gWith(stmts) ==
  <<kw_void, <<"g">>, LP, RP, LB>> \o Flatten(stmts) \o <<RB>>

GenInit ==
  /\ \E stmts \in SeqsUpTo(StmtPool, MaxStmts) :
       prog = <<D_c, D_x, D_gWith(stmts), D_main>>
  /\ data = SourceOf(prog)
  /\ ParsedState(ParserParse(data))

SpecGen == GenInit /\ [][OutNext]_vars

(***************************************************************************)
(* Properties of the allocator                                             *)
(***************************************************************************)
\* The locations of the function's parameters are final: the third loop has
\* run.
Located == al.pc \in {"reserve", "statements", "end", "done"}

\* The number of locals of the function that were given a register.
RegisterLocals ==
  Cardinality({ m \in 1..Len(fn.localVars) : fn.localVars[m].reg # "" })

\* Parameter k, 1 <= k <= 4, is in the k-th of the registers A, B, C, D.
InParamRegister(k) == fn.parameters[k].reg = RegNames[k]

\* Parameter k, k >= 5, is on the stack at the frame-pointer offset off.
OnStackAt(k, off) ==
  /\ fn.parameters[k].reg = ""
  /\ fn.parameters[k].offsetSet
  /\ fn.parameters[k].offset = off

\* C8, with the saved registers: at code generation parameters 1 to 4 are
\* located in the registers A, B, C, D in declaration order, and parameter
\* k for k >= 5 is
\* located at the frame-pointer offset -2*(k-4) - 2*(R+1), where R is the
\* number of locals of the function that were given a register: the R
\* callee-saved registers and the frame pointer are pushed between the
\* return address and the frame.
Thm_C8_ParamLocations ==
  Located =>
    \A k \in 1..Len(fn.parameters) :
      IF k <= 4 THEN InParamRegister(k)
      ELSE OnStackAt(k, -2 * (k - 4) - 2 * (RegisterLocals + 1))

\* C8, the case: a function with a fifth parameter and a local in a
\* register, after the third loop.
Wit_C8_ParamLocations ==
  /\ al.pc = "reserve"
  /\ Len(fn.parameters) >= 5
  /\ RegisterLocals >= 1

\* C8, without the saved registers: at code generation parameters 1 to 4
\* are located in the registers A, B, C, D in declaration order and
\* parameter k for k >= 5 is
\* located at the frame-pointer offset -2*(k-4), however many locals the
\* function declares.
Claim_C8_ParamLocations ==
  Located =>
    \A k \in 1..Len(fn.parameters) :
      IF k <= 4 THEN InParamRegister(k)
      ELSE OnStackAt(k, -2 * (k - 4))

(***************************************************************************)
(* Properties of the loops                                                 *)
(***************************************************************************)
\* The number of the first instruction line after the line "label:" (one
\* more than the number of lines when there is none): where a jump to the
\* label goes on.
RECURSIVE NextInst(_, _)
NextInst(lines, i) ==
  IF i > Len(lines) \/ lines[i].k = "inst" THEN i
  ELSE NextInst(lines, i + 1)

Resolve(lines, label) ==
  NextInst(lines,
           1 + CHOOSE i \in 1..Len(lines) :
                 lines[i].k = "label" /\ lines[i].label = label)

\* The line is the jump that a continue statement writes for the label.
IsContinueJump(line, label) ==
  /\ line.k = "inst"
  /\ line.words[1] = "JMPI"
  /\ line.words[2] = label

\* C4: in the code written for any loop, a continue jumps to the point from
\* which the next thing executed is the loop expressions (a for loop) or
\* the evaluation of the condition (a while loop, a do-while loop): no
\* statement of the body lies between the target of the jump and that
\* point.
Claim_C4_ContinueReachesCondition ==
  \A m \in 1..Len(gen.marks) :
    \A i \in 1..Len(gen.lines) :
      IsContinueJump(gen.lines[i], gen.marks[m].continueLabel)
        => Resolve(gen.lines, gen.marks[m].continueLabel)
             = gen.marks[m].resume

(***************************************************************************)
(* Labels and gotos: the front end over the source files built from a pool *)
(* of declarations with label and goto statements.                         *)
(***************************************************************************)
id_l == <<"l">>

L_l == <<"l", ":">>

Goto(name) == <<kw_goto, name, Semi>>

\* void h ( ) { l: }
D_hLabel == <<kw_void, <<"h">>, LP, RP, LB, L_l, RB>>

\* void k ( ) { goto l ; l: }
D_kGotoFwd == <<kw_void, <<"k">>, LP, RP, LB>> \o Goto(id_l) \o <<L_l, RB>>

\* void g ( ) { { l: } goto l ; }
D_gGotoBack ==
  <<kw_void, <<"g">>, LP, RP, LB, LB, L_l, RB>> \o Goto(id_l) \o <<RB>>

\* void k ( ) { goto l ; }
D_kGotoNone == <<kw_void, <<"k">>, LP, RP, LB>> \o Goto(id_l) \o <<RB>>

\* void k ( ) { goto a ; goto b ; }
D_kTwoGotos ==
  <<kw_void, <<"k">>, LP, RP, LB>> \o Goto(id_a) \o Goto(id_b) \o <<RB>>

LabelPool == {D_main, D_x, D_bad, D_hLabel, D_kGotoFwd, D_gGotoBack,
              D_kGotoNone, D_kTwoGotos}

LabelInit ==
  /\ prog \in SeqsUpTo(LabelPool, MaxDecls)
  /\ data = SourceOf(prog)
  /\ offset = 0
  /\ lineNum = 1
  /\ hasNext = FALSE
  /\ next = EmptyAtom
  /\ calls = <<>>
  /\ lastScan = [from |-> 0, to |-> 0, atom |-> EmptyAtom]
  /\ functions = Builtins
  /\ globals = <<>>
  /\ errors = <<>>
  /\ warnings = <<>>
  /\ status = "parsing"
  /\ expr = <<>>
  /\ OutIdle

SpecLabel == LabelInit /\ [][FrontNext]_vars

\* C11: for every program the front end rejects, exactly one line beginning
\* with "Error:" has been written when the compiler stops: the first
\* failure ends the parse and no second error is reported.
Claim_C11_OneErrorLine == status = "rejected" => Len(errors) = 1

\* The names that the goto statements of the declaration d jump to, and the
\* names of the labels that d declares.
GotoTargets(d) == { d[k + 1] : k \in { j \in 1..(Len(d) - 1) : d[j] = kw_goto } }

LabelsOf(d) ==
  { Front(d[k]) : k \in { j \in 1..Len(d) : isLabelDeclaration(d[j]) } }

\* C18: in every accepted program each goto inside a function names a
\* label declared somewhere in the same function, before or after the goto;
\* a program with a goto whose label is declared only in another function,
\* or nowhere, is not accepted.
Thm_C18_GotoHasLabel ==
  status = "accepted" =>
    \A i \in 1..Len(prog) : GotoTargets(prog[i]) \subseteq LabelsOf(prog[i])

\* C18, the case: an accepted program with a goto that comes before its
\* label, and a label of the same name in another function.
Wit_C18_GotoHasLabel ==
  /\ status = "accepted"
  /\ \E i, j \in 1..Len(prog) : prog[i] = D_kGotoFwd /\ prog[j] = D_hLabel

(***************************************************************************)
(* Operator precedence: ExprToken::parse on sums and products of three     *)
(* operands, with and without parentheses, in a file that has declared     *)
(* the globals a, b and c.                                                 *)
(***************************************************************************)
Plus == <<"+">>
Times == <<"*">>

PrecOperands == {id_a, id_b, id_c, lit_1}

SumOfProduct(x, y, z) == <<x, Plus, y, Times, z>>
SumOfParenProduct(x, y, z) == <<x, Plus, LP, y, Times, z, RP>>
ProductPlus(x, y, z) == <<x, Times, y, Plus, z>>
ProductOfParenSum(x, y, z) == <<x, Times, LP, y, Plus, z, RP>>
\* A product with two operands in a row: parse() reports an error.
ProductOfPair(x, y, z) == <<x, Times, y, z>>

PrecPool ==
  UNION { {SumOfProduct(x, y, z), SumOfParenProduct(x, y, z),
           ProductPlus(x, y, z), ProductOfParenSum(x, y, z),
           ProductOfPair(x, y, z)} :
          x \in PrecOperands, y \in PrecOperands, z \in PrecOperands }

PrecGlobals == <<ScalarGlobal(id_a), ScalarGlobal(id_b), ScalarGlobal(id_c)>>

PrecInit ==
  /\ prog \in { <<e \o <<Semi>> >> : e \in PrecPool }
  /\ data = SourceOf(prog)
  /\ offset = 0
  /\ lineNum = 1
  /\ hasNext = FALSE
  /\ next = EmptyAtom
  /\ calls = <<>>
  /\ lastScan = [from |-> 0, to |-> 0, atom |-> EmptyAtom]
  /\ functions = Builtins
  /\ globals = PrecGlobals
  /\ errors = <<>>
  /\ warnings = <<>>
  /\ status = "expression"
  /\ expr = [es |-> ExprStart, result |-> EmptyExpr]
  /\ OutIdle

SpecPrec == PrecInit /\ [][ExprNext]_vars

\* The _postfix that ExprToken::parse leaves for the expression e.
PostfixOf(e) ==
  Parse("Expr",
        [ParserStart(SourceOf(<<e \o <<Semi>> >>)) EXCEPT
           !.globals = PrecGlobals],
        FALSE).expr.postfix

\* C16: once parse() has returned on `x + y * z`, the expression is
\* accepted and its postfix sequence is, token for token, the one parse()
\* leaves for `x + (y * z)`; once it has returned on `x * y + z`, the
\* expression is accepted and its postfix sequence differs from the one
\* parse() leaves for `x * (y + z)`.
Thm_C16_PrecedenceStable ==
  \A x \in PrecOperands : \A y \in PrecOperands : \A z \in PrecOperands :
    /\ (prog = << SumOfProduct(x, y, z) \o <<Semi>> >>
        /\ status # "expression")
         => /\ status = "accepted"
            /\ expr.result.postfix = PostfixOf(SumOfParenProduct(x, y, z))
    /\ (prog = << ProductPlus(x, y, z) \o <<Semi>> >>
        /\ status # "expression")
         => /\ status = "accepted"
            /\ expr.result.postfix # PostfixOf(ProductOfParenSum(x, y, z))

\* parse() has returned on `a + b * c` with the product ahead of the sum.
Wit_C16_PrecedenceStable ==
  /\ prog = << SumOfProduct(id_a, id_b, id_c) \o <<Semi>> >>
  /\ status = "accepted"
  /\ Rendered(expr.result.postfix) = <<id_a, id_b, id_c, Times, Plus>>
  /\ Rendered(PostfixOf(ProductPlus(id_a, id_b, id_c)))
       = <<id_a, id_b, Times, id_c, Plus>>
  /\ Rendered(PostfixOf(ProductOfParenSum(id_a, id_b, id_c)))
       = <<id_a, id_b, id_c, Plus, Times>>

(***************************************************************************)
(* Constant folding: ExprToken::_evaluate on one operator applied to       *)
(* literals.  Where the int arithmetic of OperatorToken::operate is        *)
(* undefined the result is any of the results a build produces.            *)
(***************************************************************************)
FoldValues == {0, 1, 2, 15, 16, 31, 32, 33, 255, 256, 32768, Word - 1}

FoldBinaryOps == MaybeBinaryOps \ {<<"=">>, <<"[">>}

FoldUnaryOps == MaybeUnaryOps \ {<<"*">>, <<"&">>}

BinaryFold(lhs, op, rhs) ==
  <<LiteralToken(lhs, 1), LiteralToken(rhs, 1), OperatorToken(op, TRUE, 1)>>

UnaryFold(op, rhs) == <<LiteralToken(rhs, 1), OperatorToken(op, FALSE, 1)>>

FoldPool ==
  { BinaryFold(l, op, r) : l \in FoldValues, op \in FoldBinaryOps,
                           r \in FoldValues }
  \cup { UnaryFold(op, r) : op \in FoldUnaryOps, r \in FoldValues }

\* The operator of a folded expression and its operands (0 for the left
\* operand of a unary operator, as _evaluate passes it).
FoldOp == Last(expr.postfix)
FoldRhs == expr.postfix[Len(expr.postfix) - 1].val
FoldLhs == IF FoldOp.binary THEN expr.postfix[1].val ELSE 0

FoldInit ==
  /\ TokIdle
  /\ OutIdle
  /\ prog = <<>>
  /\ functions = Builtins
  /\ globals = <<>>
  /\ errors = <<>>
  /\ warnings = <<>>
  /\ status = "constant"
  /\ expr \in { [EmptyExpr EXCEPT !.postfix = p, !.line = 1] : p \in FoldPool }

\* The results of an undefined shift or product: the high bits dropped, or
\* for a shift by 32 or more the shift by the count modulo 32 that the
\* shift instructions of x86 perform.
UndefinedResults(o, lhs, rhs) ==
  {operate(o, lhs, rhs)}
  \cup (IF o.op \in {<<"<", "<">>, <<">", ">">>} /\ rhs >= 32
        THEN {operate(o, lhs, rhs % 32)} ELSE {})

FoldApply(ev, value, newStatus) ==
  /\ expr' = [expr EXCEPT !.const = ev.const, !.value = value,
                          !.undefined = ev.undefined]
  /\ warnings' = warnings \o ev.warnings
  /\ status' = newStatus
  /\ UNCHANGED <<tokVars, prog, functions, globals, errors, outVars, proc>>

\* _evaluate where every operation is defined.
Evaluate ==
  /\ status = "constant"
  /\ ~evaluate(expr.postfix, globals, expr.line).undefined
  /\ FoldApply(evaluate(expr.postfix, globals, expr.line),
               evaluate(expr.postfix, globals, expr.line).value, "folded")

\* _evaluate where the operation is undefined and yields a result.
EvaluateUndefined ==
  /\ status = "constant"
  /\ evaluate(expr.postfix, globals, expr.line).undefined
  /\ \E v \in UndefinedResults(FoldOp, FoldLhs, FoldRhs) :
       FoldApply(evaluate(expr.postfix, globals, expr.line), v, "folded")

\* _evaluate where the int product or left shift overflows in a build that
\* traps on signed overflow: the compiler is aborted.
EvaluateTraps ==
  /\ status = "constant"
  /\ evaluate(expr.postfix, globals, expr.line).undefined
  /\ FoldRhs < 32
  /\ FoldApply(evaluate(expr.postfix, globals, expr.line), 0, "aborted")

FoldNext == Evaluate \/ EvaluateUndefined \/ EvaluateTraps

SpecFold == FoldInit /\ [][FoldNext]_vars

\* C15: once _evaluate has returned on an operator applied to literals, the
\* expression is constant, its value is the exact result of the operator
\* reduced modulo 65536 (for every operator but / and % by 0 that is the
\* value of operate with the high bits dropped), and a / or % by 0 has the
\* value 0xFFFF and has written the warning.
Claim_C15_FoldWrapsAround ==
  status # "constant"
    => /\ status = "folded"
       /\ expr.const
       /\ expr.value = operate(FoldOp, FoldLhs, FoldRhs)
       /\ (FoldOp.binary /\ FoldOp.op \in {<<"/">>, <<"%">>} /\ FoldRhs = 0)
            => /\ expr.value = Word - 1
               /\ warnings = <<[msg |-> "Division by zero", line |-> 1]>>

(***************************************************************************)
(* The PUSH/POP rewriting of Parser::writeInst against the target machine. *)
(* The writer is handed a sequence of instructions; the machine runs the   *)
(* sequence as handed over and the lines as written.                       *)
(***************************************************************************)
MaxPeepInsts == 3    \* instructions handed to the writer

\* The registers the code generator names in a PUSH or a POP: the argument
\* and local registers A to K, the scratch registers L, M, N, and FP.
PeepRegs == {"A", "B", "C", "D", "E", "F", "G", "H", "I", "J", "K", "L", "M",
             "N", "FP"}

MachineRegs == PeepRegs \cup {"SP"}

StackBase == 256     \* SP when the sequence starts

StackCells == { StackBase + DATA_SIZE * k : k \in 0..(MaxPeepInsts + 1) }

RegOrder == <<"A", "B", "C", "D", "E", "F", "G", "H", "I", "J", "K", "L",
              "M", "N", "FP">>

\* A machine whose registers hold pairwise distinct values.
Machine0 ==
  [reg |-> [r \in MachineRegs |->
              IF r = "SP" THEN StackBase
              ELSE CHOOSE i \in 1..Len(RegOrder) : RegOrder[i] = r],
   mem |-> [a \in StackCells |-> 0]]

\* One instruction on the machine: PUSH stores at SP and moves SP up by a
\* word, POP moves SP down by a word and loads from it, MOV and MOVI set
\* their first operand.
Exec(m, words) ==
  CASE words[1] = "PUSH" ->
         [reg |-> [m.reg EXCEPT !["SP"] = @ + DATA_SIZE],
          mem |-> [m.mem EXCEPT ![m.reg["SP"]] = m.reg[words[2]]]]
    [] words[1] = "POP" ->
         [m EXCEPT !.reg = [[@ EXCEPT !["SP"] = @ - DATA_SIZE]
                              EXCEPT ![words[2]] =
                                m.mem[m.reg["SP"] - DATA_SIZE]]]
    [] words[1] = "MOV" ->
         [m EXCEPT !.reg = [@ EXCEPT ![words[2]] = m.reg[words[3]]]]
    [] words[1] = "MOVI" ->
         [m EXCEPT !.reg = [@ EXCEPT ![words[2]] = words[3]]]

\* The machine after a sequence of instructions.
RECURSIVE Run(_, _)
Run(m, insts) ==
  IF insts = <<>> THEN m ELSE Run(Exec(m, Head(insts)), Tail(insts))

\* The instructions of the lines written, followed by the PUSH the writer
\* holds back: the next write puts it out first.
RECURSIVE InstsOf(_)
InstsOf(lines) ==
  IF lines = <<>> THEN <<>>
  ELSE IF Head(lines).k = "inst"
  THEN <<Head(lines).words>> \o InstsOf(Tail(lines))
  ELSE InstsOf(Tail(lines))

Written(g) ==
  InstsOf(g.lines)
  \o (IF g.pendingPushReg # "" THEN << <<"PUSH", g.pendingPushReg>> >>
      ELSE <<>>)

\* The words on the machine's stack after the instructions handed over.
RECURSIVE Depth(_)
Depth(insts) ==
  IF insts = <<>> THEN 0
  ELSE Depth(Front(insts))
       + (CASE Last(insts)[1] = "PUSH" -> 1
            [] Last(insts)[1] = "POP" -> -1
            [] OTHER -> 0)

PeepInit ==
  /\ TokIdle
  /\ ParseIdle
  /\ fn = <<>>
  /\ al = [insts |-> <<>>]
  /\ gen = NewOutput
  /\ proc = <<>>

PeepApply(g, words) ==
  /\ gen' = g
  /\ al' = [al EXCEPT !.insts = IF words = <<>> THEN @ ELSE Append(@, words)]
  /\ UNCHANGED <<tokVars, parseVars, fn, proc>>

\* writeInst("PUSH r")
WritePush ==
  /\ Len(al.insts) < MaxPeepInsts
  /\ \E r \in PeepRegs :
       PeepApply(writeInst(gen, <<"PUSH", r>>), <<"PUSH", r>>)

\* writeInst("POP r") of a word the sequence has pushed.
WritePop ==
  /\ Len(al.insts) < MaxPeepInsts
  /\ Depth(al.insts) > 0
  /\ \E r \in PeepRegs :
       PeepApply(writeInst(gen, <<"POP", r>>), <<"POP", r>>)

\* writeInst of an instruction that is neither a PUSH nor a POP.
WriteOther ==
  /\ Len(al.insts) < MaxPeepInsts
  /\ PeepApply(writeInst(gen, <<"MOVI", "L", 0>>), <<"MOVI", "L", 0>>)

\* writeln of a label.
WriteLabel ==
  /\ Len(al.insts) < MaxPeepInsts
  /\ IF gen.lines = <<>> THEN TRUE ELSE Last(gen.lines).k # "label"
  /\ PeepApply(writeln(gen, LabelLine(Label(id_l, <<>>, 0))), <<>>)

PeepNext == WritePush \/ WritePop \/ WriteOther \/ WriteLabel

SpecPeep == PeepInit /\ [][PeepNext]_vars

\* C17: after any sequence of PUSH r, POP r' and other instructions handed
\* to writeInst, r and r' any registers the generator names in a PUSH or a
\* POP, the machine that runs the lines written (with a PUSH r; POP r'
\* replaced by nothing or by MOV r' r) has every register and SP equal to
\* those of the machine that runs the sequence as handed over.
Thm_C17_PeepholeSafe ==
  Run(Machine0, Written(gen)).reg = Run(Machine0, al.insts).reg

\* PUSH M; POP N has been written as MOV N M, and PUSH M; POP M as nothing.
Wit_C17_PeepholeSafe ==
  \/ /\ al.insts = << <<"PUSH", "M">>, <<"POP", "N">> >>
     /\ gen.lines = <<InstLine(<<"MOV", "N", "M">>)>>
  \/ /\ al.insts = << <<"PUSH", "M">>, <<"POP", "M">> >>
     /\ gen.lines = <<>>

(***************************************************************************)
(* Properties of the variables whose address is taken                      *)
(***************************************************************************)
\* The operand that ExprToken::output pushes for a reference to the
\* variable v of the function being written.
ReferenceOperand(v) ==
  Last(ExprWalk(gen, <<[k |-> v.k, name |-> v.name]>>, 1, <<>>, fn).operands)

\* The parameters and locals of the function being written whose address is
\* taken somewhere in the program.
AddressTaken ==
  { fn.parameters[k] : k \in { j \in 1..Len(fn.parameters) :
                                 ~fn.parameters[j].canBeReg } }
    \cup { fn.localVars[k] : k \in { j \in 1..Len(fn.localVars) :
                                       ~fn.localVars[j].canBeReg } }

\* C19: once the locations are assigned, every local or parameter that is
\* the direct operand of unary & somewhere in the program is not
\* register-resident, and a reference to it is lowered as a
\* frame-pointer-relative address, never as a register operand.
Claim_C19_AddressTakenOnStack ==
  (Located /\ gen.thrown = "") =>
    \A v \in AddressTaken :
      /\ v.reg = ""
      /\ ReferenceOperand(v).type = "ADDRESS"

(***************************************************************************)
(* The arguments of a general call against the target machine.  The source *)
(* files are "void f(<m parameters>) { }  void g(<n parameters>) {         *)
(* f(e1, ..., em); }  void main() { }" where each argument is one of the   *)
(* parameters of g or the literal 7.                                       *)
(***************************************************************************)
MaxCallerParams == 5   \* parameters of the caller g
MaxArgs == 2           \* arguments of the call, parameters of the callee f

id_g == <<"g">>

lit_7 == <<"7">>

\* The arguments a call in g can name: its parameters and the literal.
ArgPool(n) == { ParamName(k) : k \in 1..n } \cup {lit_7}

RECURSIVE ArgAtoms(_, _)
ArgAtoms(args, i) ==
  IF i > Len(args) THEN <<>>
  ELSE (IF i > 1 THEN << <<",">> >> ELSE <<>>) \o <<args[i]>>
         \o ArgAtoms(args, i + 1)

\* void g(<n parameters>) { f(<args>); }
D_caller(n, args) ==
  <<kw_void, id_g, LP>> \o ParamAtoms(1, n) \o <<RP, LB, <<"f">>, LP>>
    \o ArgAtoms(args, 1) \o <<RP, Semi, RB>>

CallInit ==
  /\ \E n \in 0..MaxCallerParams, m \in 1..MaxArgs :
       \E args \in [1..m -> ArgPool(n)] :
         prog = <<D_f(m, 0, <<>>), D_caller(n, args), D_main>>
  /\ data = SourceOf(prog)
  /\ ParsedState(ParserParse(data))

SpecCall == CallInit /\ [][OutNext]_vars

\* The cell of the caller's frame that holds its parameter k, k >= 5, SP
\* being StackBase when the caller is entered: the frame pointer is set
\* after the pushes of the prologue and the parameter is read at the offset
\* FunctionToken::output gave it.
ParamCell(k) == StackBase - DATA_SIZE * (k - 4)

CallCells ==
  { StackBase + DATA_SIZE * k : k \in (-MaxCallerParams)..(3 * MaxArgs + 4) }

\* The machine when g is entered: the registers hold pairwise distinct
\* values, A to D hold the first four parameters, the cell of parameter k
\* holds 200 + k.
CallMachine0 ==
  [reg |-> [r \in MachineRegs |->
              IF r = "SP" THEN StackBase ELSE 100 + Machine0.reg[r]],
   mem |-> [a \in CallCells |->
              IF \E k \in 5..MaxCallerParams : a = ParamCell(k)
              THEN 200 + (StackBase - a) \div DATA_SIZE + 4
              ELSE 0]]

\* One instruction of the code of a call with such arguments: MOVI with a
\* 0x literal, ADD and SUB modulo 2^16, LOAD from a cell, and the
\* instructions of Exec.
CallExec(m, words) ==
  CASE words[1] = "MOVI" ->
         [m EXCEPT !.reg = [@ EXCEPT ![words[2]] = LiteralParse(words[3]).val]]
    [] words[1] = "ADD" ->
         [m EXCEPT !.reg = [@ EXCEPT ![words[2]] =
                              (@ + m.reg[words[3]]) % Word]]
    [] words[1] = "SUB" ->
         [m EXCEPT !.reg = [@ EXCEPT ![words[2]] =
                              (@ + Word - m.reg[words[3]]) % Word]]
    [] words[1] = "LOAD" ->
         [m EXCEPT !.reg = [@ EXCEPT ![words[2]] = m.mem[m.reg[words[3]]]]]
    [] OTHER -> Exec(m, words)

RECURSIVE CallRun(_, _)
CallRun(m, insts) ==
  IF insts = <<>> THEN m ELSE CallRun(CallExec(m, Head(insts)), Tail(insts))

\* The lines after the label of the function name.
RECURSIVE AfterLabel(_, _)
AfterLabel(lines, name) ==
  IF lines = <<>> THEN <<>>
  ELSE IF Head(lines).k = "label" /\ Head(lines).label = Label(name, <<>>, 0)
  THEN Tail(lines)
  ELSE AfterLabel(Tail(lines), name)

\* The instructions before the first CALL.
RECURSIVE BeforeCall(_)
BeforeCall(insts) ==
  IF insts = <<>> \/ Head(insts)[1] = "CALL" THEN <<>>
  ELSE <<Head(insts)>> \o BeforeCall(Tail(insts))

\* The machine when the CALL of g is reached.
AtCall == CallRun(CallMachine0, BeforeCall(InstsOf(AfterLabel(gen.lines, id_g))))

\* The arguments of the call statement of g.
CallArgs == fn.statements[1].fnCall.arguments

\* The value the argument has when g is entered.
ArgValue(e) ==
  LET token == e.postfix[1]
      k == getParameter(token.name, fn.parameters)
  IN IF token.k = "lit" THEN token.val
     ELSE IF k <= 4 THEN CallMachine0.reg[RegNames[k]]
     ELSE CallMachine0.mem[ParamCell(k)]

\* The call statement of g has been written.
CallWritten ==
  /\ fn.name = id_g
  /\ al.pc = "statements"
  /\ al.i = 2
  /\ gen.thrown = ""

\* C20: in a general call f(e1, ..., en) the value passed for argument i
\* is the value that ei has in the caller's state before the call sequence
\* began: when the CALL is reached the i-th of the registers A, B, C, D
\* holds that value, wherever the caller's own parameters are placed.
Claim_C20_ArgumentsIndependent ==
  CallWritten =>
    \A i \in 1..Len(CallArgs) : AtCall.reg[RegNames[i]] = ArgValue(CallArgs[i])

(***************************************************************************)
(* The driver (main): the argument check, the Tokenizer and the Parser,    *)
(* Parser::parse, Parser::output and the catch clause.  proc holds the     *)
(* argument count, whether the source path can be read and the destination *)
(* path opened for writing, the destination file, the position in main and *)
(* the exit code.                                                          *)
(***************************************************************************)
id_f == <<"f">>

\* uint16 stack;
D_stackGlobal == <<kw_uint16, id_stack, Semi>>

\* The source files of the driver: accepted ones whose output completes,
\* one whose output throws (the address of a register parameter), and
\* rejected ones.
DriverPool ==
  { <<D_main>>, <<D_x, D_main>>, <<D_stackGlobal, D_main>>,
    <<D_f(1, 0, <<>>), D_main>>, <<D_f(1, 1, <<>>), D_main>>,
    <<D_f(5, 0, <<"addressed">>), D_main>>,
    <<>>, <<D_bad>>, <<D_g>>, <<D_main, D_bad>> }

\* argc: the program name and one, two or three arguments.
ArgCounts == {2, 3, 4}

DriverInit ==
  /\ TokIdle
  /\ functions = <<>>
  /\ globals = <<>>
  /\ errors = <<>>
  /\ warnings = <<>>
  /\ status = "idle"
  /\ expr = <<>>
  /\ fn = <<>>
  /\ al = <<>>
  /\ gen = <<>>
  /\ prog \in DriverPool
  /\ \E argc \in ArgCounts, readable \in BOOLEAN, writable \in BOOLEAN,
        dest \in {"absent", "old"} :
       proc = [pc |-> "main", argc |-> argc, srcReadable |-> readable,
               destWritable |-> writable, dest |-> dest, opened |-> FALSE,
               exit |-> 0]

\* return code;
Return(p, code) == [p EXCEPT !.pc = "exited", !.exit = code]

\* if (3 != argc) { usage(argv[0]); return 1; }
MainUsage ==
  /\ proc.pc = "main"
  /\ proc.argc # 3
  /\ proc' = Return(proc, 1)
  /\ UNCHANGED <<tokVars, parseVars, outVars>>

\* Tokenizer tokenizer(argv[1]); Parser parser(&tokenizer); on a file that
\* can be read: the buffer is the file, the parser holds the builtins.
MainTokenizer ==
  /\ proc.pc = "main"
  /\ proc.argc = 3
  /\ proc.srcReadable
  /\ data' = SourceOf(prog)
  /\ functions' = Builtins
  /\ status' = "parsing"
  /\ proc' = [proc EXCEPT !.pc = "parse"]
  /\ UNCHANGED <<offset, lineNum, hasNext, next, calls, lastScan, prog,
                 globals, errors, warnings, expr, outVars>>

\* Tokenizer tokenizer(argv[1]) on a file that cannot be opened: tellg()
\* returns -1, _data.reserve throws std::length_error, which no catch
\* clause of main takes: std::terminate ends the process.
MainTokenizerAborts ==
  /\ proc.pc = "main"
  /\ proc.argc = 3
  /\ ~proc.srcReadable
  /\ proc' = [proc EXCEPT !.pc = "aborted"]
  /\ UNCHANGED <<tokVars, parseVars, outVars>>

\* if (!parser.parse()) { return 1; } with all of main in front of
\* parser.output: the process after parse() returned ok.
AfterParse_OpensFirst(p, ok) ==
  IF ok THEN [p EXCEPT !.pc = "output"]
  ELSE Return([p EXCEPT !.opened = TRUE, !.dest = "written"], 1)

AfterParse(p, ok) ==
  IF ok THEN [p EXCEPT !.pc = "output"] ELSE Return(p, 1)

ParseStep(r) ==
  /\ offset' = r.ps.tk.offset
  /\ lineNum' = r.ps.tk.lineNum
  /\ hasNext' = r.ps.tk.hasNext
  /\ next' = r.ps.tk.next
  /\ functions' = r.ps.functions
  /\ globals' = r.ps.globals
  /\ errors' = r.ps.errors
  /\ warnings' = r.ps.warnings
  /\ status' = IF r.ok THEN "accepted" ELSE "rejected"
  /\ proc' = AfterParse(proc, r.ok)
  /\ UNCHANGED <<data, calls, lastScan, prog, expr, outVars>>

\* parser.parse()
MainParse ==
  /\ proc.pc = "parse"
  /\ ParseStep(ParserParse(data))

OpenStep(s) ==
  /\ fn' = NewFunctionOutput(Head(SkipBuiltins(functions)))
  /\ al' = NewAlloc(SkipBuiltins(Tail(SkipBuiltins(functions))), s.stackLabel)
  /\ gen' = GlobalsOutput(s.gen, globals)
  /\ proc' = [proc EXCEPT !.pc = "functions", !.opened = TRUE,
                          !.dest = "written"]
  /\ UNCHANGED <<tokVars, parseVars>>

\* Parser::output up to its first function: the file is opened and
\* truncated, the labels are assigned, the start and the globals are
\* written.
OutputOpen ==
  /\ proc.pc = "output"
  /\ proc.destWritable
  /\ OpenStep(OutputStart(NamesOf(globals) \o NamesOf(functions)))

\* Parser::output on a file that cannot be opened: _error, return false,
\* and main returns 1.
OutputOpenFails ==
  /\ proc.pc = "output"
  /\ ~proc.destWritable
  /\ errors' = Append(errors, [msg |-> "Unable to open output file.",
                               line |-> -1])
  /\ proc' = Return(proc, 1)
  /\ UNCHANGED <<tokVars, prog, functions, globals, warnings, status, expr,
                 outVars>>

\* The functions of Parser::output and its last line.
OutputFunctions ==
  /\ proc.pc = "functions"
  /\ OutNext

\* Parser::output returned true: return 0.
MainReturns ==
  /\ proc.pc = "functions"
  /\ gen.thrown = ""
  /\ al.pc = "done"
  /\ proc' = Return(proc, 0)
  /\ UNCHANGED <<tokVars, parseVars, outVars>>

\* catch (char const *error): return 1.
MainCatches ==
  /\ proc.pc = "functions"
  /\ gen.thrown # ""
  /\ proc' = Return(proc, 1)
  /\ UNCHANGED <<tokVars, parseVars, outVars>>

DriverNext ==
  \/ MainUsage
  \/ MainTokenizer
  \/ MainTokenizerAborts
  \/ MainParse
  \/ OutputOpen
  \/ OutputOpenFails
  \/ OutputFunctions
  \/ MainReturns
  \/ MainCatches

SpecDriver == DriverInit /\ [][DriverNext]_vars

\* The process has ended.
Ended == proc.pc \in {"exited", "aborted"}

\* C12: if parsing fails, code generation never starts: the destination
\* file is never opened, truncated or written, the process returns with the
\* file as it was.
Thm_C12_RejectedNeverOpens ==
  status = "rejected" =>
    /\ ~proc.opened
    /\ proc.dest # "written"
    /\ gen = <<>>
    /\ proc.pc = "exited"

\* C12, the case: a source file that is rejected while a destination file
\* exists and could have been opened.
Wit_C12_RejectedNeverOpens ==
  /\ status = "rejected"
  /\ errors # <<>>
  /\ proc.destWritable
  /\ proc.dest = "old"
  /\ proc.pc = "exited"

\* Parsing and output generation both completed without error.
Succeeded ==
  /\ proc.argc = 3
  /\ status = "accepted"
  /\ proc.opened
  /\ gen.thrown = ""
  /\ al.pc = "done"

\* C13: the driver returns 0 only when parsing and output generation both
\* complete without error; with an argument count other than two, on any
\* front-end error (the source file cannot be read, the source is
\* rejected), when the output file cannot be opened and on any error raised
\* during code generation it returns 1.
Claim_C13_ExitCodes ==
  Ended =>
    /\ proc.pc = "exited"
    /\ proc.exit = IF Succeeded THEN 0 ELSE 1

\* The stream written to the destination file.
Stream == gen.lines

\* The label of the first instruction, "MOVI SP <stack>".
StackLabelOf(lines) == lines[1].words[3]

\* C14: for every accepted program, when the driver has ended, the stream
\* begins with "MOVI SP <stack>" and "CALL main", its last line is the
\* label "<stack>:" of the first instruction, and no line follows it: it
\* comes after the data of the globals and the code of the functions.
Claim_C14_EntryPoint ==
  (Ended /\ status = "accepted" /\ proc.opened) =>
    /\ Len(Stream) >= 3
    /\ Stream[1].k = "inst"
    /\ Stream[1].words[1] = "MOVI"
    /\ Stream[1].words[2] = "SP"
    /\ Stream[2] = InstLine(<<"CALL", Label(id_main, <<>>, 0)>>)
    /\ Last(Stream) = LabelLine(StackLabelOf(Stream))
    /\ \A i \in 1..(Len(Stream) - 1) : Stream[i] # Last(Stream)

(***************************************************************************)
(* Properties of the frame                                                 *)
(***************************************************************************)
\* The frame-pointer offsets of the storage handed to the variable v of
\* the function being written: the slot of a local or parameter that is
\* given an offset, and the arraySize words of an array local from its
\* data offset on.
SlotOf(v) == IF v.offsetSet THEN {v.offset} ELSE {}

DataOf(v) ==
  IF v.k = "local" /\ v.type.isArray
  THEN { v.dataOffset + DATA_SIZE * i : i \in 0..(v.type.arraySize - 1) }
  ELSE {}

\* The regions of the frame: <<variable name, "slot" or "data", offsets>>.
FrameRegions ==
  { <<v.name, "slot", SlotOf(v)>> :
      v \in { fn.parameters[k] : k \in 1..Len(fn.parameters) }
              \cup { fn.localVars[k] : k \in 1..Len(fn.localVars) } }
    \cup { <<v.name, "data", DataOf(v)>> :
             v \in { fn.localVars[k] : k \in 1..Len(fn.localVars) } }

\* C21: in every function frame the regions handed out by the allocator
\* are pairwise disjoint: no spilled local's slot, array local's data
\* region or spilled parameter's slot shares a frame-pointer offset with
\* another.
Claim_C21_FrameDisjoint ==
  Located =>
    \A r1, r2 \in FrameRegions : r1 # r2 => r1[3] \cap r2[3] = {}

(***************************************************************************)
(* Properties of the postfix sequence                                      *)
(***************************************************************************)
\* The operand stack of ExprToken::output, as its depth, after the tokens
\* of the postfix sequence from i on; -1 as soon as an operator finds too
\* few operands.
RECURSIVE StackDepth(_, _, _)
StackDepth(postfix, i, depth) ==
  IF depth < 0 \/ i > Len(postfix) THEN depth
  ELSE IF postfix[i].k = "op"
  THEN LET need == IF postfix[i].binary THEN 2 ELSE 1
       IN StackDepth(postfix, i + 1,
                     IF depth < need THEN -1 ELSE depth - need + 1)
  ELSE StackDepth(postfix, i + 1, depth + 1)

\* The operand stack never underflows and holds one operand at the end.
WellFormed(postfix) == StackDepth(postfix, 1, 0) = 1

\* C22: every expression accepted by the expression parser yields a
\* well-formed postfix sequence: simulated on an operand stack it never
\* underflows and leaves exactly one operand, so atoms with two adjacent
\* operands and no operator between them are rejected.
Claim_C22_PostfixWellFormed ==
  status = "accepted" => WellFormed(expr.result.postfix)

(***************************************************************************)
(* Constant expressions in code generation.  The source files are          *)
(* "uint16 x; void g() { <statement> }  void main() { }" where the         *)
(* statement is "v op w;" or "x = v op w;" for literals v and w.           *)
(***************************************************************************)
ConstLits == {<<"0">>, <<"1">>, <<"2">>}

ConstOps == {<<"+">>, <<"*">>, <<"<">>, <<"&", "&">>, <<"<", "<">>}

\* v op w ;
S_const(v, op, w) == <<v, op, w, Semi>>

\* x = v op w ;
S_assignConst(v, op, w) == <<id_x, Assign, v, op, w, Semi>>

ConstInit ==
  /\ \E v \in ConstLits, op \in ConstOps, w \in ConstLits :
       \E s \in {S_const(v, op, w), S_assignConst(v, op, w)} :
         prog = <<D_x, D_gWith(<<s>>), D_main>>
  /\ data = SourceOf(prog)
  /\ ParsedState(ParserParse(data))

SpecConst == ConstInit /\ [][OutNext]_vars

\* The statement of g has been written.
ConstWritten ==
  /\ fn.name = id_g
  /\ al.pc = "statements"
  /\ al.i = 2
  /\ gen.thrown = ""

\* The instructions written for g so far.
BodyOfG == InstsOf(AfterLabel(gen.lines, id_g))

\* The instructions that move a value: the others compute or jump.
MoveInsts == {"MOVI", "MOV", "PUSH", "POP", "STOR", "LOAD"}

\* C25: a constant-foldable expression or subexpression does not reach
\* code generation as operator nodes: the code of the statement has no
\* operator instruction and, when the whole expression is constant, it
\* loads the folded value as a literal.
Claim_C25_ConstantsFolded ==
  ConstWritten =>
    /\ \A i \in 1..Len(BodyOfG) : BodyOfG[i][1] \in MoveInsts
    /\ fn.statements[1].expr.const =>
         \E i \in 1..Len(BodyOfG) :
           /\ BodyOfG[i][1] = "MOVI"
           /\ BodyOfG[i][3] = toHexStr(fn.statements[1].expr.value, 4)

(***************************************************************************)
(* The writer under any sequence of calls: writeInst with a PUSH, a POP or *)
(* another instruction, writeln with a label, writeData, and the last line *)
(* of Parser::output.  al holds the calls made and the output after each.  *)
(***************************************************************************)
MaxWrites == 4       \* calls of the writer before Parser::output returns

\* The registers of the PUSH and POP instructions handed over.
WriterRegs == {"A", "B"}

id_w == <<"w">>

\* The lines written, followed by the PUSH that is held back.
Out(g) ==
  g.lines \o (IF g.pendingPushReg # ""
              THEN <<InstLine(<<"PUSH", g.pendingPushReg>>)>> ELSE <<>>)

WriterInit ==
  /\ TokIdle
  /\ ParseIdle
  /\ fn = <<>>
  /\ al = [pc |-> "writing", calls |-> <<>>, outs |-> <<>>]
  /\ gen = NewOutput
  /\ proc = <<>>

\* The variables after the call that hands over the line and leaves the
\* writer as g.
WriterApply(g, line, pc) ==
  /\ gen' = g
  /\ al' = [pc |-> pc, calls |-> Append(al.calls, line),
            outs |-> Append(al.outs, Out(g))]
  /\ UNCHANGED <<tokVars, parseVars, fn, proc>>

Writing == al.pc = "writing" /\ Len(al.calls) < MaxWrites

\* writeInst("PUSH r")
WriterPush ==
  /\ Writing
  /\ \E r \in WriterRegs :
       WriterApply(writeInst(gen, <<"PUSH", r>>), InstLine(<<"PUSH", r>>),
                   "writing")

\* writeInst("POP r")
WriterPop ==
  /\ Writing
  /\ \E r \in WriterRegs :
       WriterApply(writeInst(gen, <<"POP", r>>), InstLine(<<"POP", r>>),
                   "writing")

\* writeInst of an instruction that is neither a PUSH nor a POP.
WriterInst ==
  /\ Writing
  /\ WriterApply(writeInst(gen, <<"MOV", "L", "N">>),
                 InstLine(<<"MOV", "L", "N">>), "writing")

\* writeln of a label.
WriterLabel ==
  /\ Writing
  /\ WriterApply(writeln(gen, LabelLine(Label(id_w, <<>>, 0))),
                 LabelLine(Label(id_w, <<>>, 0)), "writing")

\* writeData of one word.
WriterData ==
  /\ Writing
  /\ WriterApply(writeData(gen, <<toHexStr(0, 4)>>, 1),
                 [k |-> "data", words |-> <<toHexStr(0, 4)>>], "writing")

\* The last line of Parser::output, the stack label; then it returns.
WriterReturn ==
  /\ al.pc = "writing"
  /\ WriterApply(writeln(gen, LabelLine(Label(id_stack, <<>>, 0))),
                 LabelLine(Label(id_stack, <<>>, 0)), "returned")

WriterNext ==
  \/ WriterPush
  \/ WriterPop
  \/ WriterInst
  \/ WriterLabel
  \/ WriterData
  \/ WriterReturn

SpecWriter == WriterInit /\ [][WriterNext]_vars

IsPush(line) == line.k = "inst" /\ line.words[1] = "PUSH"

IsPop(line) == line.k = "inst" /\ line.words[1] = "POP"

\* The output before call i.
OutBefore(i) == IF i = 1 THEN <<>> ELSE al.outs[i - 1]

\* What a PUSH r and the POP r' that follows it leave in place of the
\* pair: nothing, or MOV r' r.
PairCode(push, pop) ==
  IF push.words[2] = pop.words[2] THEN <<>>
  ELSE <<InstLine(<<"MOV", pop.words[2], push.words[2]>>)>>

\* Call i is a PUSH and call i + 1 is a POP: nothing is handed over
\* between them.
PushThenPop(i) ==
  /\ i + 1 <= Len(al.calls)
  /\ IsPush(al.calls[i])
  /\ IsPop(al.calls[i + 1])

\* The pair of calls i, i + 1 is elided: the output after the POP is the
\* output before the PUSH followed by the code of the pair.
Elided(i) ==
  al.outs[i + 1] = OutBefore(i) \o PairCode(al.calls[i], al.calls[i + 1])

\* The number of PUSH calls in a row that end with call i.
RECURSIVE PushRun(_)
PushRun(i) ==
  IF i = 0 THEN 0
  ELSE IF IsPush(al.calls[i]) THEN 1 + PushRun(i - 1)
  ELSE 0

\* C23: whenever a PUSH r is immediately followed by a POP r',
\* neither appears in the output: nothing is written when r = r',
\* otherwise exactly one MOV r' r.
Claim_C23_PairElided ==
  \A i \in 1..Len(al.calls) : PushThenPop(i) => Elided(i)

\* What the writer does with such a pair: it is elided when the PUSH is
\* the first, third, ... of the PUSH writes in a row; when it is the
\* second, fourth, ... the PUSH was written together with the PUSH before
\* it and the POP is written as it is.
PairElidedAtOddPush ==
  \A i \in 1..Len(al.calls) :
    PushThenPop(i) =>
      IF PushRun(i) % 2 = 1 THEN Elided(i)
      ELSE al.outs[i + 1]
             = OutBefore(i - 1) \o <<al.calls[i - 1], al.calls[i],
                                     al.calls[i + 1]>>

\* Every output the calls can give when PUSH, POP pairs next to each other
\* are left as they are or replaced by their code, and nothing else is
\* changed: the lines of the calls in call order.
RECURSIVE Elisions(_)
Elisions(history) ==
  IF history = <<>> THEN {<<>>}
  ELSE { <<Head(history)>> \o rest : rest \in Elisions(Tail(history)) }
       \cup (IF Len(history) >= 2 /\ IsPush(history[1]) /\ IsPop(history[2])
             THEN { PairCode(history[1], history[2]) \o rest :
                      rest \in Elisions(Tail(Tail(history))) }
             ELSE {})

\* C24: for every sequence of writer calls the output is the lines of the
\* calls in call order, each PUSH that is not elided with the POP after it
\* written exactly once; a PUSH is held back only until the next call, so
\* it is written before that call's line; and no PUSH is pending when
\* Parser::output has returned.
Thm_C24_PushFlushed ==
  /\ Out(gen) \in Elisions(al.calls)
  /\ gen.pendingPushReg # "" =>
       /\ al.calls # <<>>
       /\ Last(al.calls) = InstLine(<<"PUSH", gen.pendingPushReg>>)
  /\ al.pc = "returned" =>
       /\ gen.pendingPushReg = ""
       /\ gen.lines \in Elisions(al.calls)

\* C24, the case: a PUSH followed by a label, by data and by the last
\* line, Parser::output having returned.
Wit_C24_PushFlushed ==
  /\ al.pc = "returned"
  /\ \E i, j \in 1..(Len(al.calls) - 1) :
       /\ IsPush(al.calls[i]) /\ al.calls[i + 1].k = "label"
       /\ IsPush(al.calls[j]) /\ al.calls[j + 1].k = "data"
  /\ IsPush(al.calls[Len(al.calls) - 1])

\* C26: code generation cannot fail on a program the front end accepted:
\* once the destination is open no operator lowering throws (unary & always
\* receives an address operand, = an address or a register on its left), so
\* Parser::output writes the whole listing and returns true, and main
\* returns 0.
Claim_C26_CodegenCannotFail ==
  (status = "accepted" /\ proc.opened) =>
    /\ gen.thrown = ""
    /\ Ended => (proc.pc = "exited" /\ proc.exit = 0 /\ al.pc = "done")

(***************************************************************************)
(* The builtin call PIXEL against the target machine.  The source files    *)
(* are "void g(<n parameters>) { PIXEL(e1, e2); }  void main() { }" where  *)
(* each argument is a parameter of g, the literal 7 or the sum of two of   *)
(* these.                                                                  *)
(***************************************************************************)
MaxPixelParams == 2   \* parameters of the function that calls PIXEL

id_PIXEL == <<"P", "I", "X", "E", "L">>

\* The argument expressions: an atom, or atom + atom.
PixelArgs(n) ==
  { <<a>> : a \in ArgPool(n) }
    \cup { <<a, Plus, b>> : a \in ArgPool(n), b \in ArgPool(n) }

\* void g(<n parameters>) { PIXEL(<e1>, <e2>); }
D_pixel(n, e1, e2) ==
  <<kw_void, id_g, LP>> \o ParamAtoms(1, n) \o <<RP, LB, id_PIXEL, LP>>
    \o e1 \o << <<",">> >> \o e2 \o <<RP, Semi, RB>>

PixelInit ==
  /\ \E n \in 0..MaxPixelParams :
       \E e1 \in PixelArgs(n), e2 \in PixelArgs(n) :
         prog = <<D_pixel(n, e1, e2), D_main>>
  /\ data = SourceOf(prog)
  /\ ParsedState(ParserParse(data))

SpecPixel == PixelInit /\ [][OutNext]_vars

\* The instructions before the PIXEL instruction.
RECURSIVE BeforePixel(_)
BeforePixel(insts) ==
  IF insts = <<>> \/ Head(insts)[1] = "PIXEL" THEN <<>>
  ELSE <<Head(insts)>> \o BeforePixel(Tail(insts))

\* The machine when the PIXEL instruction of g is reached.
AtPixel ==
  CallRun(CallMachine0, BeforePixel(InstsOf(AfterLabel(gen.lines, id_g))))

\* The value an operand of an argument has when g is entered.
AtomValue(token) ==
  IF token.k = "lit" THEN token.val
  ELSE CallMachine0.reg[RegNames[getParameter(token.name, fn.parameters)]]

\* The value of an argument expression: an operand, or the sum of two.
PixelValue(e) ==
  IF Len(e.postfix) = 1 THEN AtomValue(e.postfix[1])
  ELSE (AtomValue(e.postfix[1]) + AtomValue(e.postfix[2])) % Word

\* The PIXEL statement of g has been written.
PixelWritten ==
  /\ fn.name = id_g
  /\ al.pc = "statements"
  /\ al.i = 2
  /\ gen.thrown = ""

\* C27: for the builtin call PIXEL(x, y), at the PIXEL M N instruction
\* register M holds the value of x and register N the value of y, whatever
\* the two argument expressions are: the code of the second argument leaves
\* M as the code of the first left it.
Claim_C27_PixelOperands ==
  PixelWritten =>
    /\ Last(InstsOf(gen.lines)) = <<"PIXEL", "M", "N">>
    /\ AtPixel.reg["M"] = PixelValue(fn.statements[1].fnCall.arguments[1])
    /\ AtPixel.reg["N"] = PixelValue(fn.statements[1].fnCall.arguments[2])

(***************************************************************************)
(* The stack pointer over a general call f(e1, ..., en) of a function f    *)
(* with n parameters and no locals, one action for each iteration of the   *)
(* loops of FunctionToken::output and FunctionCallToken::output.  al holds *)
(* the loop variables, the RET instruction written for f, the registers    *)
(* the caller saved, the number of words it pushed and the SP and FP of    *)
(* the machine that runs the instructions as they are written (the code    *)
(* of an argument leaves SP as it found it).                               *)
(***************************************************************************)
MaxCallArgs == 132   \* arguments of the call, parameters of the callee

BalanceInit ==
  /\ TokIdle
  /\ ParseIdle
  /\ fn = <<>>
  /\ gen = <<>>
  /\ proc = <<>>
  /\ \E n \in 0..MaxCallArgs :
       al = [pc |-> "params", n |-> n, i |-> 1, reg |-> RegIndex("A"),
             numOverflowParams |-> 0, ret |-> <<>>, savedRegisters |-> <<>>,
             pushed |-> 0, sp |-> StackBase, fp |-> 0]

BalanceApply(a) ==
  /\ al' = a
  /\ UNCHANGED <<tokVars, parseVars, fn, gen, proc>>

\* FunctionToken::output of f, one iteration of the first loop: a parameter
\* gets a register up to D, the others are counted as overflow parameters.
CalleeParameter ==
  /\ al.pc = "params"
  /\ al.i <= al.n
  /\ BalanceApply(IF al.reg <= RegIndex("D")
                  THEN [al EXCEPT !.i = @ + 1, !.reg = @ + 1]
                  ELSE [al EXCEPT !.i = @ + 1, !.numOverflowParams = @ + 1])

\* FunctionToken::output of f, the last instruction of the epilogue.
CalleeReturn ==
  /\ al.pc = "params"
  /\ al.i > al.n
  /\ BalanceApply([al EXCEPT
       !.pc = "save", !.i = 1,
       !.ret = IF 0 < al.numOverflowParams
               THEN <<"RET", toHexStr(al.numOverflowParams * DATA_SIZE, 2)>>
               ELSE <<"RET">>])

\* FunctionCallToken::output, the first loop: "PUSH A" to "PUSH D".
CallSave ==
  /\ al.pc = "save"
  /\ al.i <= 4 /\ al.i <= al.n
  /\ BalanceApply([al EXCEPT
       !.i = @ + 1,
       !.savedRegisters = Append(@, RegNames[al.i]),
       !.pushed = @ + 1,
       !.sp = @ + DATA_SIZE])

CallSaved ==
  /\ al.pc = "save"
  /\ ~(al.i <= 4 /\ al.i <= al.n)
  /\ BalanceApply([al EXCEPT !.pc = "registers", !.i = 1])

\* The second loop: an argument is evaluated into its register.
CallRegister ==
  /\ al.pc = "registers"
  /\ al.i <= 4 /\ al.i <= al.n
  /\ BalanceApply([al EXCEPT !.i = @ + 1])

CallRegistersSet ==
  /\ al.pc = "registers"
  /\ ~(al.i <= 4 /\ al.i <= al.n)
  /\ BalanceApply([al EXCEPT !.pc = "overflow", !.i = al.n])

\* The third loop, from the last argument down to the fifth: the argument
\* is evaluated into L, then "PUSH L".
CallOverflow ==
  /\ al.pc = "overflow"
  /\ 5 <= al.i
  /\ BalanceApply([al EXCEPT !.i = @ - 1, !.pushed = @ + 1,
                             !.sp = @ + DATA_SIZE])

\* "CALL f" pushes the return address and enters f.
CallInstruction ==
  /\ al.pc = "overflow"
  /\ al.i < 5
  /\ BalanceApply([al EXCEPT !.pc = "callee", !.sp = @ + ADDRESS_SIZE])

\* The prologue of f: "PUSH FP", "MOV FP SP".
CalleeEnter ==
  /\ al.pc = "callee"
  /\ BalanceApply([al EXCEPT !.pc = "body", !.sp = @ + DATA_SIZE,
                             !.fp = al.sp + DATA_SIZE])

\* The epilogue of f up to its RET: "MOV SP FP", "POP FP".
CalleeLeave ==
  /\ al.pc = "body"
  /\ BalanceApply([al EXCEPT !.pc = "ret", !.sp = al.fp - DATA_SIZE])

\* The RET of f pops the return address and removes the bytes of its
\* operand.
CalleeRet ==
  /\ al.pc = "ret"
  /\ BalanceApply([al EXCEPT
       !.pc = "restore",
       !.sp = @ - ADDRESS_SIZE
                - (IF Len(al.ret) = 1 THEN 0
                   ELSE LiteralParse(al.ret[2]).val)])

\* The last loop: the saved registers are popped off the stack.
CallRestore ==
  /\ al.pc = "restore"
  /\ al.savedRegisters # <<>>
  /\ BalanceApply([al EXCEPT !.savedRegisters = Front(@),
                             !.sp = @ - DATA_SIZE])

CallDone ==
  /\ al.pc = "restore"
  /\ al.savedRegisters = <<>>
  /\ BalanceApply([al EXCEPT !.pc = "done"])

BalanceNext ==
  \/ CalleeParameter
  \/ CalleeReturn
  \/ CallSave
  \/ CallSaved
  \/ CallRegister
  \/ CallRegistersSet
  \/ CallOverflow
  \/ CallInstruction
  \/ CalleeEnter
  \/ CalleeLeave
  \/ CalleeRet
  \/ CallRestore
  \/ CallDone

SpecBalance == BalanceInit /\ [][BalanceNext]_vars

Max(a, b) == IF a > b THEN a ELSE b

\* C28: for a general call with n arguments the stack pointer after the
\* whole call sequence is what it was before it: the caller pushes min(n,4)
\* registers and max(n-4,0) argument words, the RET of the callee removes
\* exactly 2*max(n-4,0) bytes (a plain RET when n <= 4), and the caller
\* pops the min(n,4) registers.
Claim_C28_CallBalanced ==
  /\ al.pc \in {"callee", "body", "ret"} =>
       /\ Len(al.savedRegisters) = Min(al.n, 4)
       /\ al.pushed = Min(al.n, 4) + Max(al.n - 4, 0)
       /\ al.ret = <<"RET">> <=> al.n <= 4
       /\ al.n > 4 => LiteralParse(al.ret[2]).val = 2 * Max(al.n - 4, 0)
  /\ al.pc = "done" => al.sp = StackBase

(***************************************************************************)
(* The frame of a function against the target machine.  The source files   *)
(* are "void f() { <locals> <&l; for the locals whose address is taken> }  *)
(* void main() { }"; a local is declared with or without the initial value *)
(* 7.  The instruction set is not part of the repository: the machine is   *)
(* run both with a PUSH that stores at SP and then increments it and with  *)
(* a PUSH that increments SP and then stores (SP points at a cell in use,  *)
(* as the comment on the array data offset in FunctionToken::output has    *)
(* it).                                                                    *)
(***************************************************************************)
MaxFrameLocals == 2   \* locals of the function f

FrameKinds == {"scalar", "initialised", "addressed", "stored"}

RECURSIVE FrameLocalAtoms(_, _)
FrameLocalAtoms(kinds, i) ==
  IF i > Len(kinds) THEN <<>>
  ELSE <<kw_uint16, LocalName(i)>>
         \o (IF kinds[i] \in {"initialised", "stored"}
             THEN <<Assign, lit_7>> ELSE <<>>)
         \o <<Semi>> \o FrameLocalAtoms(kinds, i + 1)

RECURSIVE FrameAddressAtoms(_, _)
FrameAddressAtoms(kinds, i) ==
  IF i > Len(kinds) THEN <<>>
  ELSE (IF kinds[i] \in {"addressed", "stored"}
        THEN AddressAtoms(LocalName(i)) ELSE <<>>)
         \o FrameAddressAtoms(kinds, i + 1)

\* void f() { <locals> <address statements> }
D_frame(kinds) ==
  <<kw_void, id_f, LP, RP, LB>> \o FrameLocalAtoms(kinds, 1)
    \o FrameAddressAtoms(kinds, 1) \o <<RB>>

FrameInit ==
  /\ \E kinds \in SeqsUpTo(FrameKinds, MaxFrameLocals) :
       prog = <<D_frame(kinds), D_main>>
  /\ data = SourceOf(prog)
  /\ ParsedState(ParserParse(data))

SpecFrame == FrameInit /\ [][OutNext]_vars

FrameCells ==
  { StackBase + DATA_SIZE * k : k \in (-1)..(2 * MaxFrameLocals + 4) }

\* The machine when f is entered: the registers hold pairwise distinct
\* values, none of them the address of a cell.
FrameMachine0 ==
  [reg |-> CallMachine0.reg, mem |-> [a \in FrameCells |-> 0]]

\* One instruction of the code of f.  pre: PUSH increments SP and then
\* stores, POP loads and then decrements SP; otherwise PUSH stores and then
\* increments, POP decrements and then loads.
FrameExec(pre, m, words) ==
  CASE words[1] = "PUSH" /\ pre ->
         [reg |-> [m.reg EXCEPT !["SP"] = @ + DATA_SIZE],
          mem |-> [m.mem EXCEPT ![m.reg["SP"] + DATA_SIZE] = m.reg[words[2]]]]
    [] words[1] = "POP" /\ pre ->
         [m EXCEPT !.reg = [[@ EXCEPT !["SP"] = @ - DATA_SIZE]
                              EXCEPT ![words[2]] = m.mem[m.reg["SP"]]]]
    [] words[1] = "STOR" ->
         [m EXCEPT !.mem = [@ EXCEPT ![m.reg[words[3]]] = m.reg[words[2]]]]
    [] OTHER -> CallExec(m, words)

RECURSIVE FrameRun(_, _, _)
FrameRun(pre, m, insts) ==
  IF insts = <<>> THEN m
  ELSE FrameRun(pre, FrameExec(pre, m, Head(insts)), Tail(insts))

\* The instructions before the first RET.
RECURSIVE BeforeRet(_)
BeforeRet(insts) ==
  IF insts = <<>> \/ Head(insts)[1] = "RET" THEN <<>>
  ELSE <<Head(insts)>> \o BeforeRet(Tail(insts))

\* The code of f up to its RET, its lines up to the first label (the
\* prologue and the body) and its lines after the end label.
FrameCode == BeforeRet(InstsOf(AfterLabel(gen.lines, id_f)))

\* The lines before the first label.
RECURSIVE UpToLabel(_)
UpToLabel(lines) ==
  IF lines = <<>> \/ Head(lines).k = "label" THEN <<>>
  ELSE <<Head(lines)>> \o UpToLabel(Tail(lines))

\* The instructions before "MOV FP SP": the pushes of the prologue.
RECURSIVE BeforeFrame(_)
BeforeFrame(insts) ==
  IF insts = <<>> \/ Head(insts) = <<"MOV", "FP", "SP">> THEN <<>>
  ELSE <<Head(insts)>> \o BeforeFrame(Tail(insts))

ProloguePushes ==
  BeforeFrame(InstsOf(UpToLabel(AfterLabel(gen.lines, id_f))))

\* The instructions of the epilogue after "MOV SP FP" and before the RET.
EpiloguePops ==
  Tail(BeforeRet(InstsOf(AfterLabel(gen.lines, Label(id_f, s_end, 0).text))))

\* The registers of a sequence of PUSH or POP instructions.
RegsOf(insts) == [i \in 1..Len(insts) |-> insts[i][2]]

\* The registers handed to the locals of f.
LocalRegs == { fn.localVars[i].reg : i \in 1..Len(fn.localVars) } \ {""}

\* The epilogue of f has been written.
FrameWritten ==
  /\ fn.name = id_f
  /\ al.pc = "end"
  /\ gen.thrown = ""

\* C29: the epilogue pops exactly the registers the prologue pushed (each
\* of E to K handed to a local, then FP) in the reverse of the push order,
\* FP first, so each of these registers and FP hold their entry values when
\* the function returns, whichever way the machine pushes.
Claim_C29_EpilogueRestores ==
  FrameWritten =>
    /\ \A i \in 1..Len(ProloguePushes) : ProloguePushes[i][1] = "PUSH"
    /\ \A i \in 1..Len(EpiloguePops) : EpiloguePops[i][1] = "POP"
    /\ { RegsOf(ProloguePushes)[i] : i \in 1..Len(ProloguePushes) }
         = LocalRegs \cup {"FP"}
    /\ Last(RegsOf(ProloguePushes)) = "FP"
    /\ RegsOf(EpiloguePops) = Reverse(RegsOf(ProloguePushes))
    /\ \A pre \in BOOLEAN :
         \A r \in LocalRegs \cup {"FP", "SP"} :
           FrameRun(pre, FrameMachine0, FrameCode).reg[r]
             = FrameMachine0.reg[r]

(***************************************************************************)
(* The label book with labels as texts, under any sequence of addLabel and *)
(* getUnusedLabel calls.  The names added are those of the globals and     *)
(* functions, which Parser::parse keeps pairwise distinct; label lines are *)
(* written once they are all added, one for each declared name and one for *)
(* each label minted.  al holds the names still to be added, for each call *)
(* of getUnusedLabel the set of used labels before it and the label it     *)
(* returned, whether the calls came in the order of Parser::output (every  *)
(* addLabel before the first getUnusedLabel), the names whose line is      *)
(* still to be written and the calls whose label is written; gen holds the *)
(* book and the label lines.                                               *)
(***************************************************************************)
MaxBookLabels == 2   \* calls of getUnusedLabel

\* Names and label texts, some of them a shorter one followed by a number.
BookNames == { <<"f">>, <<"f", "1">>, <<"g">> }

DigitChars == <<"0", "1", "2", "3", "4", "5", "6", "7", "8", "9">>

\* std::to_string of a positive number.
RECURSIVE to_string(_)
to_string(i) ==
  IF i < 10 THEN <<DigitChars[i + 1]>>
  ELSE to_string(i \div 10) \o <<DigitChars[(i % 10) + 1]>>

\* The loop of Parser::getUnusedLabel: the first i from the given one on
\* for which label + to_string(i) is not used.
RECURSIVE FirstUnused(_, _, _)
FirstUnused(used, label, i) ==
  IF label \o to_string(i) \in used THEN FirstUnused(used, label, i + 1)
  ELSE i

\* getUnusedLabel that tries the number 1 only.
getUnusedLabelText_FirstNumber(used, label) ==
  IF label \notin used THEN label ELSE label \o to_string(1)

\* Parser::getUnusedLabel on the texts: the label it returns and adds.
getUnusedLabelText(used, label) ==
  IF label \notin used THEN label
  ELSE label \o to_string(FirstUnused(used, label, 1))

BookInit ==
  /\ TokIdle
  /\ ParseIdle
  /\ fn = <<>>
  /\ proc = <<>>
  /\ gen = [assignedLabels |-> {}, lines |-> <<>>]
  /\ \E names \in SUBSET BookNames :
       al = [toAdd |-> names, before |-> <<>>, returned |-> <<>>,
             ordered |-> TRUE, toWrite |-> names, written |-> {}]

BookApply(a, g) ==
  /\ al' = a
  /\ gen' = g
  /\ UNCHANGED <<tokVars, parseVars, fn, proc>>

\* The first loops of Parser::output: addLabel of a declared name.
BookAddLabel ==
  \E name \in al.toAdd :
    BookApply([al EXCEPT !.toAdd = @ \ {name}],
              [gen EXCEPT !.assignedLabels = @ \cup {name}])

\* getUnusedLabel(label)
BookGetUnusedLabel ==
  /\ Len(al.returned) < MaxBookLabels
  /\ \E label \in BookNames :
       BookApply(
         [al EXCEPT
            !.before = Append(@, gen.assignedLabels),
            !.ordered = @ /\ al.toAdd = {},
            !.returned =
               Append(@, getUnusedLabelText(gen.assignedLabels, label))],
         [gen EXCEPT
            !.assignedLabels =
               @ \cup {getUnusedLabelText(gen.assignedLabels, label)}])

\* writeln(_name + ":") for a declared name.
BookWriteName ==
  /\ al.toAdd = {}
  /\ \E name \in al.toWrite :
       BookApply([al EXCEPT !.toWrite = @ \ {name}],
                 [gen EXCEPT !.lines = Append(@, name)])

\* writeln(label + ":") for the label a call of getUnusedLabel returned.
BookWriteLabel ==
  /\ al.toAdd = {}
  /\ \E i \in (1..Len(al.returned)) \ al.written :
       BookApply([al EXCEPT !.written = @ \cup {i}],
                 [gen EXCEPT !.lines = Append(@, al.returned[i])])

BookNext ==
  \/ BookAddLabel
  \/ BookGetUnusedLabel
  \/ BookWriteName
  \/ BookWriteLabel

SpecBook == BookInit /\ [][BookNext]_vars

\* C30: over any sequence of addLabel and getUnusedLabel calls,
\* getUnusedLabel never returns a label that is in the used set when it is
\* called and never returns the same label twice, so the label lines of a
\* listing (declared names, all added before the first label is minted as
\* Parser::output does, and minted labels) are pairwise distinct.
Thm_C30_LabelsDistinct ==
  /\ \A i \in 1..Len(al.returned) : al.returned[i] \notin al.before[i]
  /\ PairwiseDistinct(al.returned)
  /\ al.ordered => PairwiseDistinct(gen.lines)

\* C30, the case: f and f1 are declared, f is asked for twice, and the
\* lines of the two declared names and the two minted labels are written.
Wit_C30_LabelsDistinct ==
  /\ al.ordered
  /\ Len(al.returned) >= 2
  /\ {<<"f">>, <<"f", "1">>} \subseteq al.before[1]
  /\ al.returned[1] = <<"f", "2">>
  /\ al.returned[2] = <<"f", "3">>
  /\ Len(gen.lines) >= 4

====
